---- MODULE Spec2Model ----
(***************************************************************************)
(* A model of the DexScreener market-data client (src/src/service.ts).     *)
(*                                                                         *)
(* The client is one object with one mutable field, lastRequestTime.  Its  *)
(* operations are async functions: each runs without interruption from     *)
(* one await to the next, so every action below is one such run-to-await   *)
(* segment of an operation (the call up to its first suspension, the       *)
(* resumption after the pacing timer, the resumption after a response).    *)
(*                                                                         *)
(* Text that the code converts (chain identifiers, lower-cased before      *)
(* comparison) is a sequence of one-character strings; text that is only   *)
(* passed through or tested for emptiness is a TLA+ string.                *)
(***************************************************************************)
EXTENDS Integers, Sequences, FiniteSets, TLC

-----------------------------------------------------------------------------
(* Bounds of the model *)

\* longest upstream list that is enumerated element by element
MaxList == 2
\* operations that may be in flight at once on the one client (pacing spec)
NumSlots == 3
\* configured DEXSCREENER_RATE_LIMIT_DELAY, in clock ticks
rateLimitDelay == 2
\* how far the clock runs beyond its start (pacing spec)
MaxTicks == 2
\* largest limit argument passed by a caller
MaxLimit == 2

(* Program constants *)

\* getTrending / getNewPairs: params.limit || 10
DefaultLimit == 10
\* getPairsByChain: pairs.slice(0, 20)
DefaultChainLimit == 20
\* getMultipleTokens: tokenAddresses.length > 30
MaxTokenAddresses == 30
\* the hex digits of a token address in a message
AddressDigits == 40

\* the limit a handler passes when the message names none
HandlerLimit == 10

\* the most entries the search, chain-pairs and token-profiles handlers list
ListedMost == 5
\* the most pairs the token-info handler lists
ListedPairs == 3
\* the most entries the boosted-tokens handler lists
ListedTokens == 10

\* Date.now() when the first operation is called: far beyond lastRequestTime = 0
StartTime == rateLimitDelay + 1
EndTime == StartTime + MaxTicks

-----------------------------------------------------------------------------
(* Strings that the code converts *)

\* String.prototype.toLowerCase on one character of the alphabet in use
LowerChar(c) ==
  CASE c = "A" -> "a"
    [] c = "B" -> "b"
    [] c = "C" -> "c"
    [] c = "D" -> "d"
    [] c = "E" -> "e"
    [] c = "F" -> "f"
    [] c = "G" -> "g"
    [] c = "H" -> "h"
    [] c = "I" -> "i"
    [] c = "J" -> "j"
    [] c = "K" -> "k"
    [] c = "L" -> "l"
    [] c = "M" -> "m"
    [] c = "N" -> "n"
    [] c = "O" -> "o"
    [] c = "P" -> "p"
    [] c = "Q" -> "q"
    [] c = "R" -> "r"
    [] c = "S" -> "s"
    [] c = "T" -> "t"
    [] c = "U" -> "u"
    [] c = "V" -> "v"
    [] c = "W" -> "w"
    [] c = "X" -> "x"
    [] c = "Y" -> "y"
    [] c = "Z" -> "z"
    [] OTHER -> c

toLowerCase(s) == [i \in 1..Len(s) |-> LowerChar(s[i])]

eth == <<"e", "t", "h">>
ETH == <<"E", "T", "H">>
Eth == <<"E", "t", "h">>
sol == <<"s", "o", "l">>
Sol == <<"S", "o", "l">>

-----------------------------------------------------------------------------
(* JSON values of the upstream API *)

Undefined == [t |-> "undefined"]
Null == [t |-> "null"]

\* a value as the code sees it: undefined, null, one object, or an array
JUndefined == [shape |-> "undefined", items |-> <<>>]
JNull == [shape |-> "null", items |-> <<>>]
JObject(x) == [shape |-> "object", items |-> <<x>>]
JArray(xs) == [shape |-> "array", items |-> xs]

\* types.ts DexScreenerPair; omitted names the optional members left out.  The prices
\* are strings, the other amounts numbers.
Pair(id, chain, labels, vol, liq, chg, buys, sells, price, native, cap, fdv, omitted) ==
  [t |-> "pair", id |-> id, labels |-> labels, omitted |-> omitted, chainId |-> chain,
   volumeH24 |-> vol, liquidityUsd |-> liq, priceChangeH24 |-> chg,
   buysH24 |-> buys, sellsH24 |-> sells, priceUsd |-> price, priceNative |-> native,
   marketCap |-> cap, fdv |-> fdv]

\* types.ts DexScreenerProfile / DexScreenerBoostedToken, as far as the client reads them
Token(chain, address, omitted) ==
  [t |-> "token", omitted |-> omitted, chainId |-> chain, tokenAddress |-> address]

Has(x, member) == x.t \notin {"null", "undefined"} /\ member \notin x.omitted

\* Array.prototype.includes
includes(xs, x) == \E i \in 1..Len(xs) : xs[i] = x

\* Array.prototype.slice(0, n) for n >= 0
slice(xs, n) == IF n >= Len(xs) THEN xs ELSE SubSeq(xs, 1, n)

\* all sequences over S of length at most n
SeqsUpTo(S, n) == UNION {[1..k -> S] : k \in 0..n}

-----------------------------------------------------------------------------
(* The upstream API as the model drives it *)

\* pairs the upstream can return
PA == Pair("PA", eth, <<>>, 5, 0, 1, 2, 1, <<"1", ".", "5">>, <<"3">>, 2500000, 0,
           {"labels", "liquidity", "fdv"})
PB == Pair("PB", ETH, <<"hot", "new">>, 7, 3, 0 - 2, 0, 0, <<"2">>, <<"4">>, 0, 1234, {})
PC == Pair("PC", sol, <<"hot">>, 0, 9, 4, 1, 3, <<>>, <<"0", ".", "0", "0", "5">>, 0, 0,
           {"volume", "priceUsd", "marketCap", "fdv"})
PH == Pair("PH", Sol, <<>>, 7, 3, 0, 0, 0, <<"1", "2">>, <<"1">>, 999, 999, {"txns", "priceChange"})

PairPool == {PA, PB, PC, PH}

\* promoted tokens / token profiles the listing endpoints can return
Ta == Token(eth, <<"a">>, {})
Tb == Token(ETH, <<"b">>, {})
Tc == Token(sol, <<"c">>, {})
Td == Token(Eth, <<"d">>, {})
Te == Token(eth, <<"e">>, {})
Tf == Token(<<>>, <<"f">>, {"chainId"})
Tg == Token(sol, <<"g">>, {})
Th == Token(Sol, <<"h">>, {})

TokenPool == {Ta, Tb, Tc, Td, Te, Tf, Tg, Th}

\* a listing longer than the default limit
LongList == [i \in 1..(DefaultLimit + 1) |-> IF i % 2 = 1 THEN Ta ELSE Tb]

\* response.data of a response: its shape, its elements when it is an array (the
\* object itself when it is one object), and its members .pairs and .pair
Body(shape, items, pairs, pair) ==
  [shape |-> shape, items |-> items, pairs |-> pairs, pair |-> pair]

NullBody == Body("null", <<>>, JUndefined, Undefined)
ObjectBody(x) == Body("object", <<x>>, JUndefined, Undefined)
ArrayBody(xs) == Body("array", xs, JUndefined, Undefined)
PairsBody(pairs) == Body("object", <<>>, pairs, Undefined)
PairBody(pair) == Body("object", <<>>, JUndefined, pair)

\* what api.get settles with: a response, or a rejection (error.response?.data?.message
\* and error.message; "" stands for an absent or empty text, both falsy)
Resolved(body) == [ok |-> TRUE, data |-> body, respMsg |-> "", message |-> ""]
Rejected(respMsg, message) ==
  [ok |-> FALSE, data |-> NullBody, respMsg |-> respMsg, message |-> message]

Rejections ==
  {Rejected(r, m) : r \in {"", "Rate limit exceeded"}, m \in {"", "Network Error"}}

ListingBodies ==
  {NullBody} \cup {ObjectBody(x) : x \in TokenPool}
    \cup {ArrayBody(xs) : xs \in SeqsUpTo(TokenPool \cup {Null}, MaxList)}
    \cup {ArrayBody(LongList)}

SearchBodies ==
  {NullBody, PairsBody(JUndefined)}
    \cup {PairsBody(JArray(xs)) : xs \in SeqsUpTo(PairPool \cup {Null}, MaxList)}

PairBodies == {NullBody} \cup {PairBody(x) : x \in {Undefined, Null, PA}}

PlainBodies ==
  {NullBody, ObjectBody(PA)} \cup {ArrayBody(xs) : xs \in SeqsUpTo(PairPool, MaxList)}

\* the bodies an endpoint can answer with
Bodies(path) ==
  CASE path \in {"/latest/dex/search", "/latest/dex/tokens"} -> SearchBodies
    [] path = "/latest/dex/pairs" -> PairBodies
    [] path \in {"/token-boosts/top/v1", "/token-boosts/latest/v1",
                 "/token-profiles/latest/v1"} -> ListingBodies
    [] OTHER -> PlainBodies

Outcomes(path) == Rejections \cup {Resolved(b) : b \in Bodies(path)}

\* the endpoints by the shape of their answers
Family(path) ==
  CASE path \in {"/latest/dex/search", "/latest/dex/tokens"} -> "search"
    [] path = "/latest/dex/pairs" -> "pair"
    [] path \in {"/token-boosts/top/v1", "/token-boosts/latest/v1",
                 "/token-profiles/latest/v1"} -> "listing"
    [] OTHER -> "plain"

SearchOutcomes == Outcomes("/latest/dex/search")
PairOutcomes == Outcomes("/latest/dex/pairs")
ListingOutcomes == Outcomes("/token-profiles/latest/v1")
PlainOutcomes == Outcomes("/tokens/v1")

\* GET /tokens/v1/<chain>/<address> for one token of a listing
TokenLookup(address) ==
  CASE address = <<"a">> -> Resolved(ArrayBody(<<PA>>))
    [] address = <<"b">> -> Resolved(ArrayBody(<<PB, PA>>))
    [] address = <<"c">> -> Resolved(ArrayBody(<<PC>>))
    [] address = <<"d">> -> Resolved(ArrayBody(<<>>))
    [] address = <<"e">> -> Rejected("", "Request failed with status code 429")
    [] address = <<"f">> -> Resolved(ObjectBody(PA))
    [] address = <<"g">> -> Resolved(ArrayBody(<<Null>>))
    [] OTHER -> Resolved(ArrayBody(<<PH>>))

-----------------------------------------------------------------------------
(* ServiceResult, and how an operation's try / catch produces it *)

\* types.ts DexScreenerServiceResponse
Success(data) == [data |-> data, success |-> TRUE, error |-> ""]
Failure(error) == [data |-> JUndefined, success |-> FALSE, error |-> error]
NoResult == [data |-> JUndefined, success |-> FALSE, error |-> ""]

\* the completion of a try block: it returned a result, or it threw
Return(r) == [respMsg |-> "", message |-> "", threw |-> FALSE, result |-> r]
Throw(respMsg, message) ==
  [respMsg |-> respMsg, message |-> message, threw |-> TRUE, result |-> NoResult]
\* reading a member of null throws inside the try
TypeError(member) ==
  Throw("", CASE member = "pairs" -> "Cannot read properties of null (reading 'pairs')"
              [] member = "pair" -> "Cannot read properties of null (reading 'pair')"
              [] member = "chainId" -> "Cannot read properties of null (reading 'chainId')"
              [] OTHER -> "Cannot read properties of null (reading 'tokenAddress')")

\* a catch block that drops the per-operation text
Catch_noFallback(c, fallback) ==
  IF ~c.threw THEN c
  ELSE Return(Failure(IF c.respMsg # "" THEN c.respMsg ELSE c.message))

\* try { ... } catch (error) { return { success: false, error:
\*   error.response?.data?.message || error.message || fallback } }:
\* the completion of the whole operation
Catch(c, fallback) ==
  IF ~c.threw THEN c
  ELSE Return(Failure(IF c.respMsg # "" THEN c.respMsg
                      ELSE IF c.message # "" THEN c.message
                      ELSE fallback))

\* a value is falsy when it is undefined or null (arrays and objects are truthy)
Truthy(v) == v.shape \notin {"undefined", "null"}

\* the value of response.data as a result payload
Value(body) == [shape |-> body.shape, items |-> body.items]

\* Array.isArray(response.data) ? response.data : [response.data]
AsList(body) ==
  CASE body.shape = "array" -> body.items
    [] body.shape = "null" -> <<Null>>
    [] OTHER -> body.items


-----------------------------------------------------------------------------
(* The operations: what each does with the settled request (service.ts) *)

\* a call: the operation and its arguments; omitted names the optional ones not passed
Call(kind, chain, address, limit, sortBy, count, omitted) ==
  [chain |-> chain, omitted |-> omitted, address |-> address, kind |-> kind,
   limit |-> limit, sortBy |-> sortBy, count |-> count, timeframe |-> <<>>]

\* the call with a timeframe passed: types.ts DexScreenerTrendingParams.timeframe
Timed(c, timeframe) == [c EXCEPT !.timeframe = timeframe, !.omitted = @ \ {"timeframe"}]

\* the values of the timeframe parameter
Timeframes == {<<"1", "h">>, <<"6", "h">>, <<"2", "4", "h">>}

NoCall == Call("none", <<>>, <<>>, 0, "", 0, {})

\* the endpoint an operation's first request goes to
Path(kind) ==
  CASE kind = "search" -> "/latest/dex/search"
    [] kind = "getTokenPairs" -> "/latest/dex/tokens"
    [] kind = "getPair" -> "/latest/dex/pairs"
    [] kind = "getTrending" -> "/token-boosts/top/v1"
    [] kind = "getPairsByChain" -> "/latest/dex/search"
    [] kind = "getNewPairs" -> "/token-profiles/latest/v1"
    [] kind = "getTokenProfile" -> "/token-profiles/latest/v1"
    [] kind = "getMultipleTokens" -> "/tokens/v1"
    [] kind = "getLatestTokenProfiles" -> "/token-profiles/latest/v1"
    [] kind = "getLatestBoostedTokens" -> "/token-boosts/latest/v1"
    [] kind = "getTopBoostedTokens" -> "/token-boosts/top/v1"
    [] kind = "checkOrderStatus" -> "/orders/v1"
    [] OTHER -> "/token-pairs/v1"

\* the per-operation text of the catch block
Fallback(kind) ==
  CASE kind = "search" -> "Failed to search tokens"
    [] kind = "getTokenPairs" -> "Failed to get token pairs"
    [] kind = "getPair" -> "Failed to get pair"
    [] kind = "getTrending" -> "Failed to get trending pairs"
    [] kind = "getPairsByChain" -> "Failed to get pairs by chain"
    [] kind = "getNewPairs" -> "Failed to get new pairs"
    [] kind = "getTokenProfile" -> "Failed to get token profile"
    [] kind = "getMultipleTokens" -> "Failed to get multiple tokens"
    [] kind = "getLatestTokenProfiles" -> "Failed to get latest token profiles"
    [] kind = "getLatestBoostedTokens" -> "Failed to get latest boosted tokens"
    [] kind = "getTopBoostedTokens" -> "Failed to get top boosted tokens"
    [] kind = "checkOrderStatus" -> "Failed to check order status"
    [] OTHER -> "Failed to get token pairs by chain"

\* await this.api.get(...) inside try: a rejection is thrown at the await
Awaited(out) == IF out.ok THEN Return(NoResult) ELSE Throw(out.respMsg, out.message)

PairsOrEmpty(body) == IF Truthy(body.pairs) THEN body.pairs ELSE JArray(<<>>)

\* search and getTokenPairs after the response
searchResponse(c, out) ==
  IF ~out.ok THEN Awaited(out)
  ELSE IF out.data.shape = "null" THEN TypeError("pairs")
  ELSE Return(Success(PairsOrEmpty(out.data)))

\* getPair without the test for a missing pair
getPairResponse_noCheck(c, out) ==
  IF ~out.ok THEN Awaited(out)
  ELSE IF out.data.shape = "null" THEN TypeError("pair")
  ELSE Return(Success(JObject(out.data.pair)))

\* getPair after the response
getPairResponse(c, out) ==
  IF ~out.ok THEN Awaited(out)
  ELSE IF out.data.shape = "null" THEN TypeError("pair")
  ELSE IF out.data.pair.t \in {"undefined", "null"} THEN Return(Failure("Pair not found"))
  ELSE Return(Success(JObject(out.data.pair)))

\* (a.volume?.h24 || 0) and its siblings: the 24h metric a sort key reads
Metric(pair, sortBy) ==
  CASE sortBy = "volume" -> IF Has(pair, "volume") THEN pair.volumeH24 ELSE 0
    [] sortBy = "liquidity" -> IF Has(pair, "liquidity") THEN pair.liquidityUsd ELSE 0
    [] sortBy = "priceChange" -> IF Has(pair, "priceChange") THEN pair.priceChangeH24 ELSE 0
    [] sortBy = "txns" -> IF Has(pair, "txns") THEN pair.buysH24 + pair.sellsH24 ELSE 0
    [] OTHER -> 0

RECURSIVE insertSorted(_, _, _)
\* one step of the stable sort: p goes behind every element that does not rank below it
insertSorted(sorted, p, sortBy) ==
  IF sorted = <<>> THEN <<p>>
  ELSE IF Metric(Head(sorted), sortBy) >= Metric(p, sortBy)
       THEN <<Head(sorted)>> \o insertSorted(Tail(sorted), p, sortBy)
       ELSE <<p>> \o sorted

RECURSIVE sort(_, _)
\* pairs.sort((a, b) => metric(b) - metric(a)): stable, non-increasing
sort(pairs, sortBy) ==
  IF pairs = <<>> THEN <<>>
  ELSE insertSorted(sort(SubSeq(pairs, 1, Len(pairs) - 1), sortBy), pairs[Len(pairs)], sortBy)

\* a filter that lets every pair through
filterByChain_keepAll(pairs, chain) == pairs

RECURSIVE filterByChain(_, _)
\* pairs.filter(pair => pair.chainId.toLowerCase() === params.chain.toLowerCase())
filterByChain(pairs, chain) ==
  IF pairs = <<>> THEN <<>>
  ELSE IF toLowerCase(Head(pairs).chainId) = toLowerCase(chain)
       THEN <<Head(pairs)>> \o filterByChain(Tail(pairs), chain)
       ELSE filterByChain(Tail(pairs), chain)

\* getPairsByChain after the response
getPairsByChainResponse(c, out) ==
  IF ~out.ok THEN Awaited(out)
  ELSE IF out.data.shape = "null" THEN TypeError("pairs")
  ELSE LET pairs == PairsOrEmpty(out.data).items
       IN IF \E i \in 1..Len(pairs) : pairs[i].t = "null" THEN TypeError("chainId")
          ELSE LET filtered == filterByChain(pairs, c.chain)
                   sorted == IF "sortBy" \in c.omitted THEN filtered
                             ELSE sort(filtered, c.sortBy)
                   limited == IF "limit" \notin c.omitted /\ c.limit # 0
                              THEN slice(sorted, c.limit)
                              ELSE slice(sorted, DefaultChainLimit)
               IN Return(Success(JArray(limited)))

RECURSIVE find(_, _)
\* profiles.find(p => p.tokenAddress?.toLowerCase() === tokenAddress.toLowerCase()):
\* the first match, undefined when there is none; reading a null element throws
find(profiles, address) ==
  IF profiles = <<>> THEN Return(Success(JUndefined))
  ELSE IF Head(profiles).t = "null" THEN TypeError("tokenAddress")
  ELSE IF Has(Head(profiles), "tokenAddress")
          /\ toLowerCase(Head(profiles).tokenAddress) = toLowerCase(address)
       THEN Return(Success(JObject(Head(profiles))))
  ELSE find(Tail(profiles), address)

\* getTokenProfile after the response
getTokenProfileResponse(c, out) ==
  IF ~out.ok THEN Awaited(out)
  ELSE LET found == find(AsList(out.data), c.address)
       IN IF found.threw THEN found
          ELSE IF ~Truthy(found.result.data) THEN Return(Failure("Token profile not found"))
          ELSE found

\* getMultipleTokens, checkOrderStatus, getTokenPairsByChain after the response:
\* data: response.data || []
dataOrEmptyResponse(c, out) ==
  IF ~out.ok THEN Awaited(out)
  ELSE Return(Success(IF Truthy(out.data) THEN Value(out.data) ELSE JArray(<<>>)))

\* a listing that hands the response data on as it came
listingResponse_asIs(c, out) ==
  IF ~out.ok THEN Awaited(out) ELSE Return(Success(Value(out.data)))

\* getLatestTokenProfiles, getLatestBoostedTokens, getTopBoostedTokens after the response
listingResponse(c, out) ==
  IF ~out.ok THEN Awaited(out) ELSE Return(Success(JArray(AsList(out.data))))

\* params.limit || 10
\* a cut that is shorter for the 1h timeframe
LimitOrDefault_byTimeframe(c) ==
  IF c.timeframe = <<"1", "h">> THEN 1
  ELSE IF "limit" \notin c.omitted /\ c.limit # 0 THEN c.limit ELSE DefaultLimit

LimitOrDefault(c) == IF "limit" \notin c.omitted /\ c.limit # 0 THEN c.limit ELSE DefaultLimit

RECURSIVE filterProfiles(_, _)
\* profiles.filter(p => p.chainId?.toLowerCase() === params.chain.toLowerCase())
filterProfiles(profiles, chain) ==
  IF profiles = <<>> THEN <<>>
  ELSE IF Has(Head(profiles), "chainId")
          /\ toLowerCase(Head(profiles).chainId) = toLowerCase(chain)
       THEN <<Head(profiles)>> \o filterProfiles(Tail(profiles), chain)
       ELSE filterProfiles(Tail(profiles), chain)

\* getTrending: the tokens whose pairs are looked up
boostedTokens(c, out) == slice(AsList(out.data), LimitOrDefault(c))

\* getNewPairs: the profiles whose pairs are looked up; the chain filter reads
\* p.chainId of every profile, which throws on a null one
filteredProfiles(c, out) ==
  LET profiles == AsList(out.data)
  IN IF "chain" \in c.omitted \/ c.chain = <<>> THEN Return(Success(JArray(profiles)))
     ELSE IF \E i \in 1..Len(profiles) : profiles[i].t = "null" THEN TypeError("chainId")
     ELSE Return(Success(JArray(filterProfiles(profiles, c.chain))))

\* filteredProfiles.slice(0, params.limit || 10)
newPairProfiles(c, out) ==
  slice(filteredProfiles(c, out).result.data.items, LimitOrDefault(c))

\* getTrending, one lookup: Array.isArray(pairResponse.data) ? pairResponse.data[0] : null,
\* and null from the catch
trendingPair(out) ==
  IF ~out.ok THEN Null
  ELSE IF out.data.shape = "array"
       THEN IF out.data.items = <<>> THEN Undefined ELSE out.data.items[1]
       ELSE Null

\* a labelling that appends without looking
newLabels_alwaysAppend(pair) ==
  (IF Has(pair, "labels") THEN pair.labels ELSE <<>>) \o <<"new">>

\* labels: pairs[0].labels?.includes('new') ? pairs[0].labels : [...(pairs[0].labels || []), 'new']
newLabels(pair) ==
  IF Has(pair, "labels") /\ includes(pair.labels, "new") THEN pair.labels
  ELSE (IF Has(pair, "labels") THEN pair.labels ELSE <<>>) \o <<"new">>

\* getNewPairs, one lookup: the first pair with the label, null otherwise
newPair(out) ==
  IF ~out.ok THEN Null
  ELSE LET pairs == IF out.data.shape = "array" THEN out.data.items ELSE <<>>
       IN IF Len(pairs) > 0
          THEN IF pairs[1].t = "null" THEN Null
               ELSE [pairs[1] EXCEPT !.labels = newLabels(pairs[1]),
                                     !.omitted = pairs[1].omitted \ {"labels"}]
          ELSE Null

RECURSIVE filterNotNull(_)
\* (await Promise.all(pairPromises)).filter(pair => pair !== null)
filterNotNull(xs) ==
  IF xs = <<>> THEN <<>>
  ELSE IF Head(xs) = Null THEN filterNotNull(Tail(xs))
  ELSE <<Head(xs)>> \o filterNotNull(Tail(xs))


-----------------------------------------------------------------------------
(* The client as a state machine *)

VARIABLES
  now,              \* Date.now()
  lastRequestTime,  \* DexScreenerService.lastRequestTime
  pc,               \* per operation in flight: where it is suspended
  call,             \* per operation: the call it serves
  wake,             \* per operation: when its pacing timer is due
  answer,           \* per operation: what its first request settled with, once it has
  lookups,          \* per operation: the per-token lookups of its fan-out
  overtook,         \* per operation: a lookup settled before one started earlier
  result,           \* per operation: the ServiceResult it resolved to
  sent,             \* every request handed to api.get, in order
  handling,         \* per operation: the handler awaiting it and the message it serves
  reply,            \* per operation: what the handler returned or threw
  formatted,        \* what the last call of a formatter returned
  console,          \* the lines written with console.log
  stamps            \* per operation: lastRequestTime before and after its pacing step

vars ==
  <<now, lastRequestTime, pc, call, wake, answer, lookups, overtook, result, sent,
    handling, reply, formatted, console, stamps>>

\* the operations a caller can have in flight; a specification uses the first few
Slots == 1..NumSlots

\* one request as api.get receives it, with the pacing that preceded it: at is the
\* time it goes out, paced whether a rateLimit() call of its own preceded it, prev
\* and stamp the value of lastRequestTime before that pacing and when it goes out
Request(s, path, token, paced, prev, stamp) ==
  [path |-> path, token |-> token, paced |-> paced, prev |-> prev, stamp |-> stamp,
   slot |-> s, at |-> now]

\* a timer one millisecond longer than the remaining delay
rateLimitWait_long(t, last) ==
  IF t - last < rateLimitDelay THEN rateLimitDelay - (t - last) + 1 ELSE 0

\* rateLimit(): how long the caller is suspended
rateLimitWait(t, last) ==
  IF t - last < rateLimitDelay THEN rateLimitDelay - (t - last) ELSE 0

\* the request an operation sends once rateLimit() has returned: api.get is called
\* in a later run than the one that recorded the time
FirstRequest(s, c) == Request(s, Path(c.kind), Undefined, TRUE, stamps[s][1], stamps[s][2])

\* a length check that is off by one
TooMany_offByOne(c) == c.kind = "getMultipleTokens" /\ c.count >= MaxTokenAddresses

\* getMultipleTokens: tokenAddresses.length > 30
TooMany(c) == c.kind = "getMultipleTokens" /\ c.count > MaxTokenAddresses

\* An operation is called: it runs up to its first suspension.  getMultipleTokens
\* returns at once on too long a list; otherwise rateLimit() either suspends the
\* operation on a timer or records the time and returns, and the operation, which
\* awaits it, goes on to its request in a later run.
Start(s, c) ==
  /\ s \in DOMAIN pc
  /\ pc[s] = "idle"
  /\ call' = [call EXCEPT ![s] = c]
  /\ IF TooMany(c)
     THEN /\ pc' = [pc EXCEPT ![s] = "done"]
          /\ result' = [result EXCEPT ![s] = Failure("Maximum 30 token addresses allowed")]
          /\ UNCHANGED <<lastRequestTime, wake, stamps>>
     ELSE IF rateLimitWait(now, lastRequestTime) > 0
     THEN /\ pc' = [pc EXCEPT ![s] = "sleeping"]
          /\ wake' = [wake EXCEPT ![s] = now + rateLimitWait(now, lastRequestTime)]
          /\ UNCHANGED <<lastRequestTime, result, stamps>>
     ELSE /\ pc' = [pc EXCEPT ![s] = "paced"]
          /\ lastRequestTime' = now
          /\ stamps' = [stamps EXCEPT ![s] = <<lastRequestTime, now>>]
          /\ UNCHANGED <<wake, result>>
  /\ UNCHANGED <<now, answer, lookups, overtook, sent>>

\* the continuations that are ready have run: a timer or a response is handled only
\* then
Drained == \A s \in DOMAIN pc : pc[s] # "paced"

\* how early, by Date.now(), a timer of the runtime can fire
TimerEarly == 1

\* rateLimit() resumes when its timer has fired, which can be TimerEarly before the
\* time it was set for: it records the time as it then is and returns
rateLimitResume(s) ==
  /\ s \in DOMAIN pc
  /\ pc[s] = "sleeping"
  /\ Drained
  /\ now + TimerEarly >= wake[s]
  /\ pc' = [pc EXCEPT ![s] = "paced"]
  /\ lastRequestTime' = now
  /\ stamps' = [stamps EXCEPT ![s] = <<lastRequestTime, now>>]
  /\ UNCHANGED <<now, call, wake, answer, lookups, overtook, result, sent, handling, reply,
                 formatted, console>>

\* the operation goes on from its await of rateLimit(): api.get is called
apiGet(s) ==
  /\ s \in DOMAIN pc
  /\ pc[s] = "paced"
  /\ pc' = [pc EXCEPT ![s] = "request"]
  /\ sent' = Append(sent, FirstRequest(s, call[s]))
  /\ UNCHANGED <<now, lastRequestTime, call, wake, answer, lookups, overtook, result,
                 handling, reply, formatted, console, stamps>>

\* the clock advances
Tick ==
  /\ now < EndTime
  /\ now' = now + 1
  /\ UNCHANGED <<lastRequestTime, pc, call, wake, answer, lookups, overtook, result, sent,
                 handling, reply, formatted, console, stamps>>

search(s, c) == c.kind = "search" /\ Start(s, c) /\ UNCHANGED <<handling, reply, formatted, console>>
getTokenPairs(s, c) == c.kind = "getTokenPairs" /\ Start(s, c) /\ UNCHANGED <<handling, reply, formatted, console>>
getPair(s, c) == c.kind = "getPair" /\ Start(s, c) /\ UNCHANGED <<handling, reply, formatted, console>>
getTrending(s, c) == c.kind = "getTrending" /\ Start(s, c) /\ UNCHANGED <<handling, reply, formatted, console>>
getPairsByChain(s, c) == c.kind = "getPairsByChain" /\ Start(s, c) /\ UNCHANGED <<handling, reply, formatted, console>>
getNewPairs(s, c) == c.kind = "getNewPairs" /\ Start(s, c) /\ UNCHANGED <<handling, reply, formatted, console>>
getTokenProfile(s, c) == c.kind = "getTokenProfile" /\ Start(s, c) /\ UNCHANGED <<handling, reply, formatted, console>>
getMultipleTokens(s, c) == c.kind = "getMultipleTokens" /\ Start(s, c) /\ UNCHANGED <<handling, reply, formatted, console>>
getLatestTokenProfiles(s, c) == c.kind = "getLatestTokenProfiles" /\ Start(s, c) /\ UNCHANGED <<handling, reply, formatted, console>>
getLatestBoostedTokens(s, c) == c.kind = "getLatestBoostedTokens" /\ Start(s, c) /\ UNCHANGED <<handling, reply, formatted, console>>
getTopBoostedTokens(s, c) == c.kind = "getTopBoostedTokens" /\ Start(s, c) /\ UNCHANGED <<handling, reply, formatted, console>>
checkOrderStatus(s, c) == c.kind = "checkOrderStatus" /\ Start(s, c) /\ UNCHANGED <<handling, reply, formatted, console>>
getTokenPairsByChain(s, c) == c.kind = "getTokenPairsByChain" /\ Start(s, c) /\ UNCHANGED <<handling, reply, formatted, console>>

\* the try block of a single-request operation, from the settled request on
Response(c, out) ==
  CASE c.kind \in {"search", "getTokenPairs"} -> searchResponse(c, out)
    [] c.kind = "getPair" -> getPairResponse(c, out)
    [] c.kind = "getPairsByChain" -> getPairsByChainResponse(c, out)
    [] c.kind = "getTokenProfile" -> getTokenProfileResponse(c, out)
    [] c.kind \in {"getLatestTokenProfiles", "getLatestBoostedTokens",
                   "getTopBoostedTokens"} -> listingResponse(c, out)
    [] OTHER -> dataOrEmptyResponse(c, out)

Aggregates == {"getTrending", "getNewPairs"}

\* getTrending / getNewPairs: the try block from the settled listing request up to
\* the fan-out; it throws on a rejected listing and in the chain filter
Listing(c, out) ==
  IF ~out.ok THEN Awaited(out)
  ELSE IF c.kind = "getNewPairs" THEN filteredProfiles(c, out)
  ELSE Return(NoResult)

\* the tokens whose lookups are started
Selected(c, out) ==
  IF c.kind = "getTrending" THEN boostedTokens(c, out) ELSE newPairProfiles(c, out)

\* one fan-out task as it stands when the map has run: reading token.chainId of a
\* null token throws inside the task's own try, and its catch, which reads
\* token.tokenAddress for the log line, throws again, so the task is rejected at
\* once; otherwise its request is out and the task is pending
Lookup(token) ==
  [threw |-> token.t = "null", token |-> token, settled |-> token.t = "null",
   value |-> Null, response |-> Resolved(NullBody)]

\* the lookups go out without rateLimit(): api.get is called directly
LookupRequest(s, token) ==
  Request(s, "/tokens/v1", token, FALSE, lastRequestTime, lastRequestTime)

\* a fan-out that sends the lookup of the first selected token a second time
LookupRequests_again(s, tokens) ==
  IF tokens = <<>> \/ Head(tokens).t = "null" THEN <<>>
  ELSE <<LookupRequest(s, Head(tokens)), LookupRequest(s, Head(tokens))>>

RECURSIVE LookupRequests(_, _)
LookupRequests(s, tokens) ==
  IF tokens = <<>> THEN <<>>
  ELSE IF Head(tokens).t = "null" THEN LookupRequests(s, Tail(tokens))
  ELSE <<LookupRequest(s, Head(tokens))>> \o LookupRequests(s, Tail(tokens))

\* how an operation ends: its promise resolves to the result, or rejects
End(c) == IF c.threw THEN "rejected" ELSE "done"

\* the values of Promise.all in the order in which the tasks happen to be stored last
Values_reversed(ls) == [i \in 1..Len(ls) |-> ls[Len(ls) + 1 - i].value]

\* the values of Promise.all, in the order of the tasks
Values(ls) == [i \in 1..Len(ls) |-> ls[i].value]

\* (await Promise.all(pairPromises)).filter(pair => pair !== null), returned as data;
\* a task catches the failure of its request, so Promise.all rejects only on a task
\* whose catch threw
joined(c, ls) ==
  IF \E i \in 1..Len(ls) : ls[i].threw THEN TypeError("tokenAddress")
  ELSE Return(Success(JArray(filterNotNull(Values(ls)))))

\* The request of an operation settles and the operation resumes.  A single-request
\* operation runs to its return.  getTrending and getNewPairs start one lookup per
\* selected token, all in the same run, and suspend on Promise.all; a task rejected
\* in that run rejects Promise.all before any response can arrive, and the
\* operation ends in its catch with the requests of the other tasks out.
apiGetSettles(s, out) ==
  /\ s \in DOMAIN pc
  /\ pc[s] = "request"
  /\ Drained
  /\ answer' = [answer EXCEPT ![s] = <<out>>]
  /\ LET c == call[s]
         done == IF c.kind \in Aggregates THEN Catch(Listing(c, out), Fallback(c.kind))
                 ELSE Catch(Response(c, out), Fallback(c.kind))
         tasks == [i \in 1..Len(Selected(c, out)) |-> Lookup(Selected(c, out)[i])]
         failed == Catch(joined(c, tasks), Fallback(c.kind))
     IN IF c.kind \in Aggregates /\ ~Listing(c, out).threw
        THEN /\ lookups' = [lookups EXCEPT ![s] = tasks]
             /\ sent' = sent \o LookupRequests(s, Selected(c, out))
             /\ IF \E i \in 1..Len(tasks) : tasks[i].threw
                THEN /\ pc' = [pc EXCEPT ![s] = End(failed)]
                     /\ result' = [result EXCEPT ![s] = failed.result]
                ELSE /\ pc' = [pc EXCEPT ![s] = "fanout"]
                     /\ UNCHANGED result
        ELSE /\ pc' = [pc EXCEPT ![s] = End(done)]
             /\ result' = [result EXCEPT ![s] = done.result]
             /\ UNCHANGED <<lookups, sent>>
  /\ UNCHANGED <<now, lastRequestTime, call, wake, overtook, handling, reply, formatted, console, stamps>>

\* what a settled lookup leaves in its task
LookupValue(c, out) == IF c.kind = "getTrending" THEN trendingPair(out) ELSE newPair(out)

\* one lookup settles, in any order among the pending ones; the task of a lookup goes
\* on from its await whether the operation still waits for it or has ended, a task
\* rejected in the run of the map having rejected Promise.all
lookupSettles(s, i) ==
  /\ s \in DOMAIN pc
  /\ pc[s] \in {"fanout", "done", "rejected"}
  /\ Drained
  /\ i \in 1..Len(lookups[s])
  /\ ~lookups[s][i].settled
  /\ LET out == TokenLookup(lookups[s][i].token.tokenAddress)
     IN lookups' = [lookups EXCEPT ![s][i] =
                      [@ EXCEPT !.settled = TRUE, !.response = out,
                                !.value = LookupValue(call[s], out)]]
  /\ overtook' = [overtook EXCEPT ![s] = @ \/ \E j \in 1..(i - 1) : ~lookups[s][j].settled]
  /\ UNCHANGED <<now, lastRequestTime, pc, call, wake, answer, result, sent, handling, reply, formatted, console, stamps>>

\* Promise.all has every task settled: the operation filters and returns
join(s) ==
  /\ s \in DOMAIN pc
  /\ pc[s] = "fanout"
  /\ \A i \in 1..Len(lookups[s]) : lookups[s][i].settled
  /\ LET done == Catch(joined(call[s], lookups[s]), Fallback(call[s].kind))
     IN /\ pc' = [pc EXCEPT ![s] = End(done)]
        /\ result' = [result EXCEPT ![s] = done.result]
  /\ UNCHANGED <<now, lastRequestTime, call, wake, answer, lookups, overtook, sent,
                 handling, reply, formatted, console, stamps>>

-----------------------------------------------------------------------------
(* The calls a caller makes *)

Limited(kind, chain, sortBy, omitted) ==
  {Call(kind, chain, <<>>, 0, sortBy, 0, omitted \cup {"limit"})}
    \cup {Call(kind, chain, <<>>, n, sortBy, 0, omitted) : n \in 0..MaxLimit}

Plain(kind) == Call(kind, <<>>, <<>>, 0, "", 0, {"chain", "limit", "sortBy"})

SearchCalls == {Plain("search")}
TokenPairsCalls == {Plain("getTokenPairs")}
PairCalls == {Plain("getPair")}
TrendingCalls ==
  Limited("getTrending", <<>>, "", {"chain", "sortBy", "timeframe"})
    \cup {Timed(c, tf) : c \in Limited("getTrending", <<>>, "", {"chain", "sortBy", "timeframe"}),
                          tf \in Timeframes}
NewPairsCalls ==
  Limited("getNewPairs", <<>>, "", {"chain", "sortBy"})
    \cup UNION {Limited("getNewPairs", ch, "", {"sortBy"}) : ch \in {ETH, sol}}
PairsByChainCalls ==
  UNION {Limited("getPairsByChain", ch, "", {"sortBy"}) : ch \in {eth, Sol}}
    \cup UNION {Limited("getPairsByChain", ch, k, {}) :
                  ch \in {eth, Sol}, k \in {"volume", "liquidity", "priceChange", "txns"}}
TokenProfileCalls ==
  {Call("getTokenProfile", <<>>, a, 0, "", 0, {"chain", "limit", "sortBy"}) :
     a \in {<<"A">>, <<"b">>, <<"z">>}}
MultipleTokensCalls ==
  {Call("getMultipleTokens", eth, <<>>, 0, "", n, {"limit", "sortBy"}) :
     n \in 0..(MaxTokenAddresses + 2)}
LatestTokenProfilesCalls == {Plain("getLatestTokenProfiles")}
LatestBoostedTokensCalls == {Plain("getLatestBoostedTokens")}
TopBoostedTokensCalls == {Plain("getTopBoostedTokens")}
OrderStatusCalls == {Plain("checkOrderStatus")}
TokenPairsByChainCalls == {Plain("getTokenPairsByChain")}

-----------------------------------------------------------------------------
(* What a handler keeps while it awaits the client, and what it answers *)

\* the handler serving an operation, the message it was given, and where it is
Handling(handler, content, at) == [at |-> at, handler |-> handler, content |-> content]

\* an operation a caller made directly
NotHandling == Handling("none", <<>>, "none")

\* the text of a reply: its fixed lead, the value interpolated after it, the error
\* string it ends with, and the entries it lists
Text(kind, lead, arg, error, items) ==
  [items |-> items, error |-> error, kind |-> kind, lead |-> lead, arg |-> arg,
   main |-> Undefined]

\* the text with the pair whose token, price and volume stand under its heading
Headed(body, main) == [body EXCEPT !.main = main]

NoText == Text("none", "", <<>>, "", <<>>)

\* how a handler ended: the object it returned, or the exception it let through
Reply(ended, text, action, data, message) ==
  [data |-> data, message |-> message, ended |-> ended, text |-> text, action |-> action]

NoReply == Reply("no", NoText, "", JUndefined, "")

\* no formatter has been called
NoFormat == [formatter |-> "", input |-> <<>>, output |-> <<>>]

-----------------------------------------------------------------------------
(* Spec: one call of any operation against every upstream answer *)

InitSlots(n) ==
  /\ now = StartTime
  /\ lastRequestTime = 0
  /\ pc = [s \in 1..n |-> "idle"]
  /\ call = [s \in 1..n |-> NoCall]
  /\ wake = [s \in 1..n |-> 0]
  /\ answer = [s \in 1..n |-> <<>>]
  /\ lookups = [s \in 1..n |-> <<>>]
  /\ overtook = [s \in 1..n |-> FALSE]
  /\ result = [s \in 1..n |-> NoResult]
  /\ sent = <<>>
  /\ handling = [s \in 1..n |-> NotHandling]
  /\ reply = [s \in 1..n |-> NoReply]
  /\ formatted = NoFormat
  /\ console = <<>>
  /\ stamps = [s \in 1..n |-> <<0, 0>>]

Init == InitSlots(1)

\* the request of operation s went to an endpoint of this family
Answers(s, family) ==
  s \in DOMAIN pc /\ pc[s] = "request" /\ Family(Path(call[s].kind)) = family

Next ==
  \/ \E s \in Slots, c \in SearchCalls : search(s, c)
  \/ \E s \in Slots, c \in TokenPairsCalls : getTokenPairs(s, c)
  \/ \E s \in Slots, c \in PairCalls : getPair(s, c)
  \/ \E s \in Slots, c \in TrendingCalls : getTrending(s, c)
  \/ \E s \in Slots, c \in PairsByChainCalls : getPairsByChain(s, c)
  \/ \E s \in Slots, c \in NewPairsCalls : getNewPairs(s, c)
  \/ \E s \in Slots, c \in TokenProfileCalls : getTokenProfile(s, c)
  \/ \E s \in Slots, c \in MultipleTokensCalls : getMultipleTokens(s, c)
  \/ \E s \in Slots, c \in LatestTokenProfilesCalls : getLatestTokenProfiles(s, c)
  \/ \E s \in Slots, c \in LatestBoostedTokensCalls : getLatestBoostedTokens(s, c)
  \/ \E s \in Slots, c \in TopBoostedTokensCalls : getTopBoostedTokens(s, c)
  \/ \E s \in Slots, c \in OrderStatusCalls : checkOrderStatus(s, c)
  \/ \E s \in Slots, c \in TokenPairsByChainCalls : getTokenPairsByChain(s, c)
  \/ \E s \in Slots : apiGet(s)
  \/ \E s \in Slots : Answers(s, "search") /\ \E out \in SearchOutcomes : apiGetSettles(s, out)
  \/ \E s \in Slots : Answers(s, "pair") /\ \E out \in PairOutcomes : apiGetSettles(s, out)
  \/ \E s \in Slots : Answers(s, "listing") /\ \E out \in ListingOutcomes : apiGetSettles(s, out)
  \/ \E s \in Slots : Answers(s, "plain") /\ \E out \in PlainOutcomes : apiGetSettles(s, out)
  \/ \E s \in DOMAIN lookups : \E i \in DOMAIN lookups[s] : lookupSettles(s, i)
  \/ \E s \in Slots : join(s)

Spec == Init /\ [][Next]_vars

-----------------------------------------------------------------------------
(* SpecPacing: several operations in flight on the one client, under a clock *)

PacingCalls(kind) == {Call(kind, <<>>, <<>>, 0, "", 0, {"chain", "limit", "sortBy"})}

\* the upstream answers of the pacing specification
PacingSearchOutcomes == {Resolved(PairsBody(JArray(<<PA>>))), Rejected("", "Network Error")}
PacingListingOutcomes == {Resolved(ArrayBody(<<Ta>>)), Rejected("", "Network Error")}

\* the calls are numbered in the order in which the caller makes them
InOrder(s) == \A r \in 1..(s - 1) : pc[r] # "idle"

InitPacing == InitSlots(NumSlots)

NextPacing ==
  \/ Tick
  \/ \E s \in Slots, c \in PacingCalls("search") : InOrder(s) /\ search(s, c)
  \/ \E s \in Slots, c \in PacingCalls("getTrending") : InOrder(s) /\ getTrending(s, c)
  \/ \E s \in Slots : rateLimitResume(s)
  \/ \E s \in Slots : apiGet(s)
  \/ \E s \in Slots : Answers(s, "search") /\ \E out \in PacingSearchOutcomes : apiGetSettles(s, out)
  \/ \E s \in Slots : Answers(s, "listing") /\ \E out \in PacingListingOutcomes : apiGetSettles(s, out)
  \/ \E s \in DOMAIN lookups : \E i \in DOMAIN lookups[s] : lookupSettles(s, i)
  \/ \E s \in Slots : join(s)

SpecPacing == InitPacing /\ [][NextPacing]_vars

-----------------------------------------------------------------------------
(* SpecSequential: operations of one request each, each awaited before the next *)

\* the caller has awaited every call it made before
EachAwaited(s) == \A r \in 1..(s - 1) : pc[r] = "done"

\* the upstream answers of the sequential specification
SequentialOutcomes == {Resolved(NullBody), Rejected("", "Network Error")}

SequentialTokenCalls ==
  {Call("getMultipleTokens", eth, <<>>, 0, "", n, {"limit", "sortBy"}) :
     n \in {1, MaxTokenAddresses + 1}}

NextSequential ==
  \/ Tick
  \/ \E s \in Slots, c \in SearchCalls : EachAwaited(s) /\ search(s, c)
  \/ \E s \in Slots, c \in PairCalls : EachAwaited(s) /\ getPair(s, c)
  \/ \E s \in Slots, c \in SequentialTokenCalls : EachAwaited(s) /\ getMultipleTokens(s, c)
  \/ \E s \in Slots : rateLimitResume(s)
  \/ \E s \in Slots : apiGet(s)
  \/ \E s \in Slots, out \in SequentialOutcomes : apiGetSettles(s, out)

SpecSequential == InitPacing /\ [][NextSequential]_vars


-----------------------------------------------------------------------------
(* The text of a message, read character by character *)

\* Array.prototype.slice(i - 1): the characters from position i on
From(s, i) == SubSeq(s, i, Len(s))

\* the needle stands in s at position i; fold is TRUE under the i flag or after
\* toLowerCase
StandsAt(s, needle, i, fold) ==
  /\ i >= 1 /\ i + Len(needle) - 1 <= Len(s)
  /\ LET part == SubSeq(s, i, i + Len(needle) - 1)
     IN IF fold THEN toLowerCase(part) = toLowerCase(needle) ELSE part = needle

\* String.prototype.includes
Contains(s, needle) == \E i \in 1..Len(s) : StandsAt(s, needle, i, FALSE)

\* content.toLowerCase().includes(needle)
ContainsLower(s, needle) == Contains(toLowerCase(s), needle)

\* a to z
Letters ==
  {"a", "b", "c", "d", "e", "f", "g", "h", "i", "j", "k", "l", "m", "n", "o", "p", "q", "r",
   "s", "t", "u", "v", "w", "x", "y", "z"}

\* \s on the characters in use: the messages are single lines
IsSpace(ch) == ch = " "

\* \d
IsDigit(ch) == ch \in {"0", "1", "2", "3", "4", "5", "6", "7", "8", "9"}

\* [a-fA-F0-9]
IsHex(ch) == IsDigit(ch) \/ LowerChar(ch) \in {"a", "b", "c", "d", "e", "f"}

\* \w
IsWord(ch) == IsDigit(ch) \/ ch = "_" \/ LowerChar(ch) # ch \/ LowerChar(ch) \in Letters

RECURSIVE Run(_, _, _)
\* how many characters of the class stand in s from position i on, without a gap
Run(s, i, class) ==
  IF i > Len(s) THEN 0
  ELSE IF \/ class = "space" /\ IsSpace(s[i])
          \/ class = "digit" /\ IsDigit(s[i])
          \/ class = "hex" /\ IsHex(s[i])
          \/ class = "word" /\ IsWord(s[i])
       THEN 1 + Run(s, i + 1, class)
       ELSE 0

\* the least number of a non-empty set of numbers
Least(S) == CHOOSE n \in S : \A m \in S : n <= m

RECURSIVE trimStart(_)
trimStart(s) == IF s # <<>> /\ IsSpace(Head(s)) THEN trimStart(Tail(s)) ELSE s

RECURSIVE trimEnd(_)
trimEnd(s) ==
  IF s # <<>> /\ IsSpace(s[Len(s)]) THEN trimEnd(SubSeq(s, 1, Len(s) - 1)) ELSE s

\* String.prototype.trim
trim(s) == trimEnd(trimStart(s))

DigitValue(ch) ==
  CASE ch = "0" -> 0 [] ch = "1" -> 1 [] ch = "2" -> 2 [] ch = "3" -> 3 [] ch = "4" -> 4
    [] ch = "5" -> 5 [] ch = "6" -> 6 [] ch = "7" -> 7 [] ch = "8" -> 8 [] OTHER -> 9

RECURSIVE parseInt(_)
\* parseInt of a run of digits
parseInt(digits) ==
  IF digits = <<>> THEN 0
  ELSE 10 * parseInt(SubSeq(digits, 1, Len(digits) - 1)) + DigitValue(digits[Len(digits)])

\* the result of String.prototype.match without the g flag: no match, or the whole
\* match and its first group
NoMatch == [found |-> FALSE, whole |-> <<>>, group |-> <<>>]
Match(whole, group) == [found |-> TRUE, whole |-> whole, group |-> group]

kwSearch == <<"s", "e", "a", "r", "c", "h">>
kwFind == <<"f", "i", "n", "d">>
kwLookFor == <<"l", "o", "o", "k", " ", "f", "o", "r">>
kwFor == <<"f", "o", "r">>
kwOn == <<"o", "n">>
kwDexscreener == <<"d", "e", "x", "s", "c", "r", "e", "e", "n", "e", "r">>
kwTop == <<"t", "o", "p">>
kwNew == <<"n", "e", "w">>
kwLatest == <<"l", "a", "t", "e", "s", "t">>
kw0x == <<"0", "x">>

\* the optional tail (?:\s+on\s+dexscreener)?$ of the search pattern: the position in
\* rest at which it begins, 0 when rest does not end in it behind a non-empty query
TailStart(rest) ==
  LET n == Len(rest)
      d == n - Len(kwDexscreener) + 1
      Tails == {i \in 2..n :
                  LET sp1 == Run(rest, i, "space")
                      sp2 == Run(rest, i + sp1 + Len(kwOn), "space")
                  IN /\ sp1 >= 1
                     /\ StandsAt(rest, kwOn, i + sp1, TRUE)
                     /\ sp2 >= 1
                     /\ i + sp1 + Len(kwOn) + sp2 = d
                     /\ StandsAt(rest, kwDexscreener, d, TRUE)}
  IN IF Tails = {} THEN 0 ELSE Least(Tails)

\* a group that takes the tail with it
Query_greedy(rest) == rest

\* the lazy group (.+?) before the optional tail and the end
Query(rest) == IF TailStart(rest) = 0 THEN rest ELSE SubSeq(rest, 1, TailStart(rest) - 1)

\* what the search pattern yields when one of its words ends before position e: the
\* text that (.+?) and the tail share, <<>> when the pattern fails there.  \s+ and
\* for\s+ are greedy and give characters back only when nothing is left for (.+?)
QueryRest(s, e) ==
  LET sp == Run(s, e, "space")
      r == e + sp
      sp2 == Run(s, r + Len(kwFor), "space")
      afterFor == r + Len(kwFor) + sp2
  IN IF sp = 0 THEN <<>>
     ELSE IF StandsAt(s, kwFor, r, TRUE) /\ sp2 >= 1 /\ afterFor <= Len(s) THEN From(s, afterFor)
     ELSE IF StandsAt(s, kwFor, r, TRUE) /\ sp2 >= 2 THEN <<" ">>
     ELSE IF r <= Len(s) THEN From(s, r)
     ELSE IF sp >= 2 THEN <<" ">>
     ELSE <<>>

\* the positions at which the words of the search pattern stand, with where they end
QueryStarts(s) ==
  {i \in 1..Len(s) :
     \E kw \in {kwSearch, kwFind, kwLookFor} :
       StandsAt(s, kw, i, TRUE) /\ QueryRest(s, i + Len(kw)) # <<>>}

\* content.match(/(?:search|find|look for)\s+(?:for\s+)?(.+?)(?:\s+on\s+dexscreener)?$/i)
queryMatch(content) ==
  IF QueryStarts(content) = {} THEN NoMatch
  ELSE LET i == Least(QueryStarts(content))
           kw == CHOOSE w \in {kwSearch, kwFind, kwLookFor} : StandsAt(content, w, i, TRUE)
       IN Match(From(content, i), Query(QueryRest(content, i + Len(kw))))

\* content.match(/0x[a-fA-F0-9]{40}/)
addressMatch(content) ==
  LET Starts == {i \in 1..Len(content) :
                   /\ StandsAt(content, kw0x, i, FALSE)
                   /\ Run(content, i + Len(kw0x), "hex") >= AddressDigits}
  IN IF Starts = {} THEN NoMatch
     ELSE LET whole == SubSeq(content, Least(Starts), Least(Starts) + Len(kw0x) + AddressDigits - 1)
          IN Match(whole, whole)

\* a pattern of the form word \s+ (class+): content.match(/top\s+(\d+)/i) and
\* content.match(/on\s+(\w+)/i)
wordThenGroup(content, word, class) ==
  LET Starts == {i \in 1..Len(content) :
                   /\ StandsAt(content, word, i, TRUE)
                   /\ Run(content, i + Len(word), "space") >= 1
                   /\ Run(content, i + Len(word) + Run(content, i + Len(word), "space"), class) >= 1}
  IN IF Starts = {} THEN NoMatch
     ELSE LET i == Least(Starts)
              g == i + Len(word) + Run(content, i + Len(word), "space")
              e == g + Run(content, g, class) - 1
          IN Match(SubSeq(content, i, e), SubSeq(content, g, e))

\* content.match(/(\d+)\s+(?:new|latest)/i)
countMatch(content) ==
  LET Starts == {i \in 1..Len(content) :
                   /\ IsDigit(content[i])
                   /\ LET w == i + Run(content, i, "digit") + Run(content, i + Run(content, i, "digit"), "space")
                      IN /\ Run(content, i + Run(content, i, "digit"), "space") >= 1
                         /\ StandsAt(content, kwNew, w, TRUE) \/ StandsAt(content, kwLatest, w, TRUE)}
  IN IF Starts = {} THEN NoMatch
     ELSE LET i == Least(Starts)
              d == Run(content, i, "digit")
              w == i + d + Run(content, i + d, "space")
              e == IF StandsAt(content, kwNew, w, TRUE)
                   THEN w + Len(kwNew) - 1 ELSE w + Len(kwLatest) - 1
          IN Match(SubSeq(content, i, e), SubSeq(content, i, i + d - 1))

\* content.match(/\b(1h|6h|24h)\b/): the first of the three that stands between
\* two word boundaries
timeframeMatch(content) ==
  LET Frames == {<<"1", "h">>, <<"6", "h">>, <<"2", "4", "h">>}
      Boundary(i) == i < 1 \/ i > Len(content) \/ ~IsWord(content[i])
      Starts == {i \in 1..Len(content) :
                   \E f \in Frames :
                     StandsAt(content, f, i, FALSE) /\ Boundary(i - 1) /\ Boundary(i + Len(f))}
  IN IF Starts = {} THEN NoMatch
     ELSE LET i == Least(Starts)
              f == CHOOSE g \in Frames :
                     StandsAt(content, g, i, FALSE) /\ Boundary(i - 1) /\ Boundary(i + Len(g))
          IN Match(f, f)

-----------------------------------------------------------------------------
(* Numbers as the formatters read and write them (service.ts) *)

\* n zeros
Zeros(n) == [i \in 1..n |-> "0"]

\* the digits without the zeros in front of them
StripZeros(ds) ==
  IF ds = <<>> \/ ds[1] # "0" THEN ds
  ELSE LET others == {i \in 1..Len(ds) : ds[i] # "0"}
       IN IF others = {} THEN <<>> ELSE SubSeq(ds, Least(others), Len(ds))

\* the digits without the zeros behind them
StripZerosBehind(ds) ==
  IF ds = <<>> \/ ds[Len(ds)] # "0" THEN ds
  ELSE LET n == Len(ds)
           behind == {i \in 1..n : \A j \in i..n : ds[j] = "0"}
       IN SubSeq(ds, 1, n - Cardinality(behind))

\* A decimal numeral: the digits before the point (none for zero) and the digits
\* after it.  A Number, which is a binary floating-point value of 64 bits, is written
\* as the numeral of its exact value; Double tells which numerals are Numbers.
Num(sign, units, decimals) ==
  [sign |-> sign, units |-> StripZeros(units), decimals |-> decimals, is |-> "finite"]

NaN == [sign |-> "", units |-> <<>>, decimals |-> <<>>, is |-> "NaN"]

Infinity(sign) == [sign |-> sign, units |-> <<>>, decimals |-> <<>>, is |-> "Infinity"]

\* x is +0 or -0
IsZero(x) == x.is = "finite" /\ x.units = <<>> /\ StripZeros(x.decimals) = <<>>

\* x < 0
IsNegative(x) == x.is # "NaN" /\ x.sign = "-" /\ ~IsZero(x)

\* x >= 0
NotBelowZero(x) == x.is # "NaN" /\ (x.sign = "" \/ IsZero(x))

\* |x| >= |y| of two finite numerals
AtLeastInSize(x, y) ==
  IF Len(x.units) # Len(y.units) THEN Len(x.units) > Len(y.units)
  ELSE LET n == IF Len(x.decimals) > Len(y.decimals) THEN Len(x.decimals)
                ELSE Len(y.decimals)
           xs == x.units \o x.decimals \o Zeros(n - Len(x.decimals))
           ys == y.units \o y.decimals \o Zeros(n - Len(y.decimals))
           differ == {i \in 1..Len(xs) : xs[i] # ys[i]}
       IN differ = {} \/ DigitValue(xs[Least(differ)]) > DigitValue(ys[Least(differ)])

\* x >= y, for a finite y above zero
AtLeast(x, y) ==
  x.is # "NaN" /\ x.sign = "" /\ (x.is = "Infinity" \/ AtLeastInSize(x, y))

\* the digit characters by their values
DigitChars == <<"0", "1", "2", "3", "4", "5", "6", "7", "8", "9">>

RECURSIVE Successor(_)
\* the digits of n + 1 from the digits of n
Successor(ds) ==
  IF ds = <<>> THEN <<"1">>
  ELSE IF ds[Len(ds)] = "9" THEN Successor(SubSeq(ds, 1, Len(ds) - 1)) \o <<"0">>
  ELSE SubSeq(ds, 1, Len(ds) - 1) \o <<DigitChars[DigitValue(ds[Len(ds)]) + 2]>>

RECURSIVE Decimal(_)
\* the digits of a natural number
Decimal(n) ==
  IF n < 10 THEN <<DigitChars[n + 1]>> ELSE Decimal(n \div 10) \o Decimal(n % 10)

\* 2 * x in decimal: a digit doubles and takes the carry of the digit behind it
Twice(x) ==
  LET ds == x.units \o x.decimals
      n == Len(ds)
      at(i) == IF i \in 1..n THEN DigitValue(ds[i]) ELSE 0
      r == [j \in 1..(n + 1) |->
              DigitChars[((2 * at(j - 1)) % 10) + (IF at(j) >= 5 THEN 1 ELSE 0) + 1]]
  IN Num(x.sign, SubSeq(r, 1, Len(x.units) + 1),
         StripZerosBehind(SubSeq(r, Len(x.units) + 2, n + 1)))

\* x / 2 in decimal: a digit halves and takes 5 from an odd digit before it
Halved(x) ==
  LET ds == x.units \o x.decimals
      n == Len(ds)
      at(i) == IF i \in 1..n THEN DigitValue(ds[i]) ELSE 0
      r == [j \in 1..(n + 1) |->
              DigitChars[(at(j) \div 2) + (IF at(j - 1) % 2 = 1 THEN 5 ELSE 0) + 1]]
  IN Num(x.sign, SubSeq(r, 1, Len(x.units)),
         StripZerosBehind(SubSeq(r, Len(x.units) + 1, n + 1)))

RECURSIVE TimesPowerOfTwo(_, _)
\* x * 2^k, exactly
TimesPowerOfTwo(x, k) ==
  IF k = 0 \/ IsZero(x) THEN x
  ELSE IF k = 1 THEN Twice(x)
  ELSE IF k = -1 THEN Halved(x)
  ELSE TimesPowerOfTwo(TimesPowerOfTwo(x, k \div 2), k - (k \div 2))

\* x * 10^e, exactly, by moving the point
TimesPowerOfTen(x, e) ==
  IF x.is # "finite" THEN x
  ELSE IF e >= 0
  THEN LET behind == x.decimals \o Zeros(e)
       IN Num(x.sign, x.units \o SubSeq(behind, 1, e), SubSeq(behind, e + 1, Len(behind)))
  ELSE LET before == Zeros(-e) \o x.units
       IN Num(x.sign, SubSeq(before, 1, Len(before) + e),
              SubSeq(before, Len(before) + e + 1, Len(before)) \o x.decimals)

\* 2^52 and 2^53: a Number has 53 binary digits
TwoTo52 == Num("", <<"4", "5", "0", "3", "5", "9", "9", "6", "2", "7", "3", "7", "0", "4", "9", "6">>, <<>>)
TwoTo53 == Num("", <<"9", "0", "0", "7", "1", "9", "9", "2", "5", "4", "7", "4", "0", "9", "9", "2">>, <<>>)

RECURSIVE Normal(_, _)
\* x = q * 2^k is written with q in [2^52, 2^53), or with k = -1074 and q below 2^52
\* (a Number has no exponent below -1074): <<q, k>>
Normal(q, k) ==
  IF AtLeastInSize(q, TwoTo53) THEN Normal(Halved(q), k + 1)
  ELSE IF ~AtLeastInSize(q, TwoTo52) /\ k > -1074 THEN Normal(Twice(q), k - 1)
  ELSE <<q, k>>

\* the power of ten at or below a numeral that is not zero
Magnitude(x) ==
  IF x.units # <<>> THEN Len(x.units) - 1
  ELSE Len(StripZeros(x.decimals)) - Len(x.decimals) - 1

\* The Number that a numeral denotes (a literal of the program, the numeral parseFloat
\* reads, the exact result of an operation): the nearest value m * 2^k with m below
\* 2^53, the one with the even m of two that are as near; Infinity from 2^1024 on.
\* An integer below 2^53 is such a value as it stands.
Double(x) ==
  IF x.is # "finite" THEN x
  ELSE IF IsZero(x) THEN Num(x.sign, <<>>, <<>>)
  ELSE IF x.decimals = <<>> /\ ~AtLeastInSize(x, TwoTo53) THEN x
  ELSE LET size == Num("", x.units, StripZerosBehind(x.decimals))
           about == ((Magnitude(size) * 3322) \div 1000) - 52
           first == IF about < -1074 THEN -1074 ELSE about
           normal == Normal(TimesPowerOfTwo(size, -first), first)
           q == normal[1]
           k == normal[2]
           odd == q.units # <<>> /\ DigitValue(q.units[Len(q.units)]) % 2 = 1
           up == /\ q.decimals # <<>>
                 /\ \/ DigitValue(q.decimals[1]) > 5
                    \/ q.decimals[1] = "5" /\ (Len(q.decimals) > 1 \/ odd)
           m == Num("", IF up THEN Successor(q.units) ELSE q.units, <<>>)
       IN IF k > 971 \/ (k = 971 /\ AtLeastInSize(m, TwoTo53)) THEN Infinity(x.sign)
          ELSE LET r == TimesPowerOfTwo(m, k) IN Num(x.sign, r.units, r.decimals)

\* x / 10^e of a Number x: the Number nearest to the exact quotient (10^e is a Number
\* for the e in use)
DividedByPowerOfTen(x, e) == Double(TimesPowerOfTen(x, -e))

\* the Numbers the formatters compare with
One == Num("", <<"1">>, <<>>)
Hundredth == Double(Num("", <<>>, <<"0", "1">>))
Thousand == Num("", <<"1", "0", "0", "0">>, <<>>)
Million == Num("", <<"1", "0", "0", "0", "0", "0", "0">>, <<>>)

\* parseFloat: blanks, a sign, digits with or without a point, an exponent; what
\* follows the numeral is not read
parseFloat(str) ==
  LET s == trimStart(str)
      signed == s # <<>> /\ s[1] \in {"+", "-"}
      sign == IF signed /\ s[1] = "-" THEN "-" ELSE ""
      first == IF signed THEN 2 ELSE 1
      nUnits == Run(s, first, "digit")
      point == first + nUnits
      pointed == point <= Len(s) /\ s[point] = "."
      nDecimals == IF pointed THEN Run(s, point + 1, "digit") ELSE 0
      e == IF pointed THEN point + 1 + nDecimals ELSE point
      eSigned == e + 1 <= Len(s) /\ s[e + 1] \in {"+", "-"}
      eFirst == IF eSigned THEN e + 2 ELSE e + 1
      nExponent == IF e <= Len(s) /\ s[e] \in {"e", "E"} THEN Run(s, eFirst, "digit") ELSE 0
      exponent == parseInt(SubSeq(s, eFirst, eFirst + nExponent - 1))
  IN IF StandsAt(s, <<"I", "n", "f", "i", "n", "i", "t", "y">>, first, FALSE) THEN Infinity(sign)
     ELSE IF nUnits + nDecimals = 0 THEN NaN
     ELSE Double(TimesPowerOfTen(
                   Num(sign, SubSeq(s, first, point - 1),
                       SubSeq(s, point + 1, point + nDecimals)),
                   IF nExponent > 0 /\ eSigned /\ s[e + 1] = "-" THEN -exponent
                   ELSE exponent))

\* the largest power of ten that toFixed writes in fixed notation is below 10^21
FixedBelow == 21

RECURSIVE Shortest(_, _)
\* Number.prototype.toString chooses the digits of a Number: the numeral of the fewest
\* significant digits, k or more, that denotes the whole Number x; of two with as
\* few, the nearer to x
Shortest(x, k) ==
  LET n == Len(x.units)
      head == SubSeq(x.units, 1, k)
      rest == SubSeq(x.units, k + 1, n)
      below == Num("", head \o Zeros(n - k), <<>>)
      beyond == Num("", Successor(head) \o Zeros(n - k), <<>>)
      nearer == /\ rest # <<>>
                /\ \/ DigitValue(rest[1]) > 5
                   \/ /\ rest[1] = "5"
                      /\ \/ StripZeros(Tail(rest)) # <<>>
                         \/ DigitValue(head[k]) % 2 = 1
      first == IF nearer THEN beyond ELSE below
      second == IF nearer THEN below ELSE beyond
      same(y) == Double(y).units = x.units
  IN IF k >= n THEN x
     ELSE IF same(first) THEN first
     ELSE IF same(second) THEN second
     ELSE Shortest(x, k + 1)

\* Number.prototype.toString of a whole number of 10^21 or more: exponent notation
\* over its significant digits
ToExponential(x) ==
  LET ds == StripZerosBehind(x.units)
  IN <<ds[1]>> \o (IF Len(ds) > 1 THEN <<".">> \o Tail(ds) ELSE <<>>) \o
     <<"e", "+">> \o Decimal(Len(x.units) - 1)

\* Number.prototype.toFixed(digits) of a Number x: below 10^21 the whole number n for
\* which n / 10^digits is nearest to x, the larger of two that are as near, written
\* with the point digits from its end
toFixed(x, digits) ==
  IF x.is = "NaN" THEN <<"N", "a", "N">>
  ELSE LET minus == IF IsNegative(x) THEN <<"-">> ELSE <<>>
       IN IF x.is = "Infinity" THEN minus \o <<"I", "n", "f", "i", "n", "i", "t", "y">>
          ELSE IF Len(x.units) > FixedBelow
          THEN minus \o ToExponential(Shortest(Num("", x.units, <<>>), 1))
          ELSE LET kept == SubSeq(x.decimals \o Zeros(digits), 1, digits)
                   up == Len(x.decimals) > digits /\ DigitValue(x.decimals[digits + 1]) >= 5
                   n == IF up THEN Successor(x.units \o kept) ELSE x.units \o kept
                   m == Zeros(digits + 1 - Len(n)) \o n
               IN minus \o SubSeq(m, 1, Len(m) - digits) \o
                  (IF digits = 0 THEN <<>>
                   ELSE <<".">> \o SubSeq(m, Len(m) - digits + 1, Len(m)))

\* a string argument, as typeof tells it from a Number
JString(chars) == [chars |-> chars]

IsString(v) == DOMAIN v = {"chars"}

\* formatPrice; a Number argument is given by a numeral that denotes it
formatPrice(price) ==
  LET numPrice == IF IsString(price) THEN parseFloat(price.chars) ELSE Double(price)
  IN IF AtLeast(numPrice, One) THEN toFixed(numPrice, 2)
     ELSE IF AtLeast(numPrice, Hundredth) THEN toFixed(numPrice, 4)
     ELSE toFixed(numPrice, 8)

\* formatPriceChange
formatPriceChange(change) ==
  LET c == Double(change)
      sign == IF NotBelowZero(c) THEN <<"+">> ELSE <<>>
  IN sign \o toFixed(c, 2) \o <<"%">>

\* formatUsdValue
formatUsdValue(value) ==
  LET v == Double(value)
  IN IF AtLeast(v, Million)
     THEN <<"$">> \o toFixed(DividedByPowerOfTen(v, 6), 2) \o <<"M">>
     ELSE IF AtLeast(v, Thousand)
     THEN <<"$">> \o toFixed(DividedByPowerOfTen(v, 3), 2) \o <<"K">>
     ELSE <<"$">> \o toFixed(v, 2)

\* what a formatter was called with and what it returned
Formatted(formatter, input, output) ==
  [formatter |-> formatter, input |-> input, output |-> output]

\* a formatter that records the time of its call as a request's
Formats_stamping(formatter, input, output) ==
  /\ formatted' = Formatted(formatter, input, output)
  /\ lastRequestTime' = now
  /\ UNCHANGED <<now, pc, call, wake, answer, lookups, overtook, result, sent, handling,
                 reply, console, stamps>>

\* a formatter returns: nothing of the client is read or written
Formats(formatter, input, output) ==
  /\ formatted' = Formatted(formatter, input, output)
  /\ UNCHANGED <<now, lastRequestTime, pc, call, wake, answer, lookups, overtook, result,
                 sent, handling, reply, console, stamps>>

\* a number of the upstream JSON as a Number
JNumber(n) == Num(IF n < 0 THEN "-" ELSE "", IF n < 0 THEN Decimal(0 - n) ELSE Decimal(n), <<>>)

\* the numeral of a Number as a program text or an upstream string writes it
Numeral(x) ==
  (IF x.sign = "-" THEN <<"-">> ELSE <<>>) \o
  (IF x.units = <<>> THEN <<"0">> ELSE x.units) \o
  (IF x.decimals = <<>> THEN <<>> ELSE <<".">> \o x.decimals)

FormatUnits == {<<>>, <<"1">>, <<"9", "9", "9">>, <<"1", "2", "3", "4">>, <<"1", "0", "0", "0", "0", "0", "0">>, <<"2", "5", "0", "0", "0", "0", "0">>}

FormatDecimals ==
  {<<>>, <<"5">>, <<"0", "1">>, <<"0", "0", "9", "9">>, <<"9", "9", "9", "9", "5">>, <<"0", "0", "5">>, <<"1", "2", "5">>, <<"9", "9", "9">>,
   <<"0", "0", "0", "0", "1", "2", "3", "4">>, <<"0", "0", "0", "0", "0", "0", "0", "0", "5">>}

\* 10^21 and its neighbours
LargeNumbers ==
  {Num("", <<"1">> \o Zeros(FixedBelow), <<>>), Num("", <<"2", "5">> \o Zeros(FixedBelow), <<>>),
   Num("", <<"9">> \o Zeros(FixedBelow - 1), <<>>)}

NegativeNumbers ==
  {Num("-", units, decimals) :
     units \in {<<>>, <<"1", "2", "3", "4">>}, decimals \in {<<>>, <<"5">>, <<"0", "0", "5">>}}

FormatNumbers ==
  {Num("", units, decimals) : units \in FormatUnits, decimals \in FormatDecimals}
  \cup NegativeNumbers \cup LargeNumbers

\* the numerals of some of them as strings, and strings with a sign, an exponent,
\* blanks before the numeral or text behind it
FormatStrings ==
  {JString(Numeral(x)) :
     x \in {y \in FormatNumbers :
              \/ y.sign = "-"
              \/ Len(y.units) > FixedBelow
              \/ /\ y.units \in {<<>>, <<"1">>, <<"1", "2", "3", "4">>}
                 /\ y.decimals \in {<<>>, <<"0", "1">>, <<"0", "0", "9", "9">>, <<"9", "9", "9", "9", "5">>, <<"0", "0", "0", "0", "1", "2", "3", "4">>}}}
  \cup {JString(chars) :
          chars \in {<<"1", "e", "2", "1">>, <<"1", ".", "5", "e", "3">>, <<"1", "2", "e", "-", "4">>, <<" ", "0", ".", "5">>, <<"+", ".", "7", "5">>, <<"5", ".">>, <<"0", ".", "0", "1", "a", "b", "c">>, <<"1", "E", "0">>, <<"1", "e">>}}

NotNumbers == {NaN, Infinity(""), Infinity("-")}

NotNumerals == {JString(chars) : chars \in {<<"a", "b", "c">>, <<>>, <<".">>, <<"I", "n", "f", "i", "n", "i", "t", "y">>, <<"-", "I", "n", "f", "i", "n", "i", "t", "y">>}}

\* what a caller passes to formatPrice, and to the two formatters of numbers
FormatPrices == FormatNumbers \cup NotNumbers \cup FormatStrings \cup NotNumerals
FormatValues ==
  {x \in FormatNumbers : x.decimals \in {<<>>, <<"5">>, <<"0", "0", "5">>, <<"9", "9", "9">>}}
  \cup NotNumbers

\* the formatters read their argument alone: each is computed once for each input
formatPriceOf == [price \in FormatPrices |-> formatPrice(price)]
formatPriceChangeOf == [change \in FormatValues |-> formatPriceChange(change)]
formatUsdValueOf == [value \in FormatValues |-> formatUsdValue(value)]

formatPriceReturns(price) == Formats("formatPrice", price, formatPriceOf[price])

formatPriceChangeReturns(change) ==
  Formats("formatPriceChange", change, formatPriceChangeOf[change])

formatUsdValueReturns(value) == Formats("formatUsdValue", value, formatUsdValueOf[value])

\* how many lines the console keeps
MaxLines == 2

\* dexscreenerPlugin.init: a line on the console and nothing else
init ==
  /\ Len(console) < MaxLines
  /\ console' = Append(console, "DexScreener plugin initialized")
  /\ UNCHANGED <<now, lastRequestTime, pc, call, wake, answer, lookups, overtook, result,
                 sent, handling, reply, formatted, stamps>>

\* stop: a line on the console and nothing else
stop ==
  /\ Len(console) < MaxLines
  /\ console' = Append(console, "DexScreener service stopped")
  /\ UNCHANGED <<now, lastRequestTime, pc, call, wake, answer, lookups, overtook, result,
                 sent, handling, reply, formatted, stamps>>

-----------------------------------------------------------------------------
(* The handlers (actions.ts) *)

\* the seven handlers, by the name each puts into its replies
Handlers ==
  {"dexscreener_search", "dexscreener_token_info", "dexscreener_trending",
   "dexscreener_new_pairs", "dexscreener_chain_pairs", "dexscreener_boosted_tokens",
   "dexscreener_token_profiles"}

\* the chains the chain-pairs handler knows, in the order of its list
chains ==
  <<<<"e", "t", "h", "e", "r", "e", "u", "m">>, <<"b", "s", "c">>, <<"p", "o", "l", "y", "g", "o", "n">>, <<"a", "r", "b", "i", "t", "r", "u", "m">>, <<"o", "p", "t", "i", "m", "i", "s", "m">>, <<"b", "a", "s", "e">>, <<"s", "o", "l", "a", "n", "a">>, <<"a", "v", "a", "l", "a", "n", "c", "h", "e">>>>

\* validate of each handler
validate(handler, content) ==
  CASE handler = "dexscreener_search" ->
         \/ ContainsLower(content, kwSearch)
         \/ ContainsLower(content, kwFind)
         \/ ContainsLower(content, kwLookFor)
    [] handler = "dexscreener_token_info" ->
         /\ ContainsLower(content, <<"t", "o", "k", "e", "n">>)
         /\ \/ Contains(content, <<"i", "n", "f", "o">>)
            \/ Contains(content, <<"d", "e", "t", "a", "i", "l", "s">>)
            \/ Contains(content, <<"p", "r", "i", "c", "e">>)
    [] handler = "dexscreener_trending" ->
         \/ ContainsLower(content, <<"t", "r", "e", "n", "d", "i", "n", "g">>)
         \/ ContainsLower(content, <<"h", "o", "t">>)
         \/ ContainsLower(content, <<"p", "o", "p", "u", "l", "a", "r">>)
         \/ ContainsLower(content, <<"g", "a", "i", "n", "e", "r", "s">>)
    [] handler = "dexscreener_new_pairs" ->
         /\ ContainsLower(content, kwNew)
         /\ \/ ContainsLower(content, <<"p", "a", "i", "r", "s">>)
            \/ ContainsLower(content, <<"t", "o", "k", "e", "n", "s">>)
            \/ ContainsLower(content, <<"l", "i", "s", "t", "i", "n", "g", "s">>)
    [] handler = "dexscreener_chain_pairs" ->
         \E i \in 1..Len(chains) : ContainsLower(content, chains[i])
    [] handler = "dexscreener_boosted_tokens" ->
         \/ ContainsLower(content, <<"b", "o", "o", "s", "t", "e", "d">>)
         \/ ContainsLower(content, <<"p", "r", "o", "m", "o", "t", "e", "d">>)
         \/ ContainsLower(content, <<"s", "p", "o", "n", "s", "o", "r", "e", "d">>)
    [] OTHER -> ContainsLower(content, <<"p", "r", "o", "f", "i", "l", "e">>) /\ ContainsLower(content, <<"t", "o", "k", "e", "n">>)

\* chains.find((c) => content.toLowerCase().includes(c)); <<>> stands for undefined
chainIn(content) ==
  LET Found == {i \in 1..Len(chains) : ContainsLower(content, chains[i])}
  IN IF Found = {} THEN <<>> ELSE chains[Least(Found)]

\* a handler that looks for the keywords in the opposite order
sortByIn_reversed(content) ==
  IF Contains(content, <<"a", "c", "t", "i", "v", "e">>) \/ Contains(content, <<"t", "r", "a", "d", "e", "s">>) THEN "txns"
  ELSE IF Contains(content, <<"g", "a", "i", "n">>) \/ Contains(content, <<"c", "h", "a", "n", "g", "e">>) THEN "priceChange"
  ELSE IF Contains(content, <<"l", "i", "q", "u", "i", "d">>) THEN "liquidity"
  ELSE "volume"

\* the sort criterion the chain-pairs handler reads from the message as it was typed
sortByIn(content) ==
  IF Contains(content, <<"l", "i", "q", "u", "i", "d">>) THEN "liquidity"
  ELSE IF Contains(content, <<"g", "a", "i", "n">>) \/ Contains(content, <<"c", "h", "a", "n", "g", "e">>) THEN "priceChange"
  ELSE IF Contains(content, <<"a", "c", "t", "i", "v", "e">>) \/ Contains(content, <<"t", "r", "a", "d", "e", "s">>) THEN "txns"
  ELSE "volume"

\* the text a handler returns at once when the message lacks what it needs, "" when
\* the handler goes on to the client
guidance(handler, content) ==
  CASE handler = "dexscreener_search" /\ ~queryMatch(content).found ->
         "Please provide a search query. Example: \"Search for PEPE\""
    [] handler = "dexscreener_token_info" /\ ~addressMatch(content).found ->
         "Please provide a token address. Example: \"Get token info for 0x...\""
    [] handler = "dexscreener_chain_pairs" /\ chainIn(content) = <<>> ->
         "Please specify a blockchain. Supported: ethereum, bsc, polygon, arbitrum, optimism, base, solana, avalanche"
    [] OTHER -> ""

\* timeframeMatch?.[1] || '24h'
timeframeIn(content) ==
  IF timeframeMatch(content).found THEN timeframeMatch(content).group ELSE <<"2", "4", "h">>

\* a handler that passes 10 whatever the message names
limitIn_default(match) == HandlerLimit

\* limitMatch ? parseInt(limitMatch[1]) : 10
limitIn(match) == IF match.found THEN parseInt(match.group) ELSE HandlerLimit

\* the call a handler makes on the client; address carries the one text argument of
\* the operation (the query of a search, the address of a token)
clientCall(handler, content) ==
  CASE handler = "dexscreener_search" ->
         Call("search", <<>>, trim(queryMatch(content).group), 0, "", 0,
              {"chain", "limit", "sortBy"})
    [] handler = "dexscreener_token_info" ->
         Call("getTokenPairs", <<>>, addressMatch(content).whole, 0, "", 0,
              {"chain", "limit", "sortBy"})
    [] handler = "dexscreener_trending" ->
         Timed(Call("getTrending", <<>>, <<>>, limitIn(wordThenGroup(content, kwTop, "digit")),
                    "", 0, {"chain", "sortBy"}),
               timeframeIn(content))
    [] handler = "dexscreener_new_pairs" ->
         Call("getNewPairs", wordThenGroup(content, kwOn, "word").group, <<>>,
              limitIn(countMatch(content)), "", 0,
              IF wordThenGroup(content, kwOn, "word").found
              THEN {"sortBy"} ELSE {"chain", "sortBy"})
    [] handler = "dexscreener_chain_pairs" ->
         Call("getPairsByChain", chainIn(content), <<>>, HandlerLimit, sortByIn(content),
              0, {})
    [] handler = "dexscreener_boosted_tokens" ->
         Plain(IF ContainsLower(content, kwTop)
               THEN "getTopBoostedTokens" ELSE "getLatestBoostedTokens")
    [] OTHER -> Plain("getLatestTokenProfiles")

\* the value a handler interpolates into its texts
argument(handler, content) ==
  CASE handler = "dexscreener_search" -> trim(queryMatch(content).group)
    [] handler = "dexscreener_token_info" -> addressMatch(content).whole
    [] handler = "dexscreener_trending" -> timeframeIn(content)
    [] handler = "dexscreener_new_pairs" -> wordThenGroup(content, kwOn, "word").group
    [] handler = "dexscreener_chain_pairs" -> chainIn(content)
    [] OTHER -> <<>>

\* if (!result.success || !result.data): the text before ${result.error}
failureLead(handler) ==
  CASE handler = "dexscreener_search" -> "Failed to search: "
    [] handler = "dexscreener_token_info" -> "Failed to get token info: "
    [] handler = "dexscreener_trending" -> "Failed to get trending tokens: "
    [] handler = "dexscreener_new_pairs" -> "Failed to get new pairs: "
    [] handler = "dexscreener_chain_pairs" -> "Failed to get ${chain} pairs: "
    [] handler = "dexscreener_boosted_tokens" -> "Failed to get boosted tokens: "
    [] OTHER -> "Failed to get token profiles: "

\* the text a handler returns for an empty list, "" where it has no such test
emptyLead(handler) ==
  CASE handler = "dexscreener_search" -> "No results found for "
    [] handler = "dexscreener_token_info" -> "No pairs found for token "
    [] handler = "dexscreener_boosted_tokens" -> "No boosted tokens found"
    [] handler = "dexscreener_token_profiles" -> "No token profiles found"
    [] OTHER -> ""

\* the heading of a listing
heading(handler, content) ==
  CASE handler = "dexscreener_search" -> "Search Results for "
    [] handler = "dexscreener_token_info" -> "Token Information"
    [] handler = "dexscreener_trending" -> "Trending Tokens "
    [] handler = "dexscreener_new_pairs" ->
         IF wordThenGroup(content, kwOn, "word").found THEN "New Trading Pairs on "
         ELSE "New Trading Pairs"
    [] handler = "dexscreener_chain_pairs" -> "Top ${chain} Pairs by ${sortBy}"
    [] handler = "dexscreener_boosted_tokens" ->
         IF ContainsLower(content, kwTop) THEN "Top Boosted Tokens"
         ELSE "Latest Boosted Tokens"
    [] OTHER -> "Latest Token Profiles"

\* the entries a handler lists: result.data, or its first few
listed(handler, items) ==
  CASE handler \in {"dexscreener_search", "dexscreener_chain_pairs",
                    "dexscreener_token_profiles"} -> slice(items, ListedMost)
    [] handler = "dexscreener_token_info" -> slice(items, ListedPairs)
    [] handler = "dexscreener_boosted_tokens" -> slice(items, ListedTokens)
    [] OTHER -> items

\* what a handler returns as data: the array it measured and listed from
returned(handler, items) ==
  IF handler \in {"dexscreener_search", "dexscreener_boosted_tokens",
                  "dexscreener_token_profiles"}
  THEN listed(handler, items) ELSE items

\* the members of an entry that the listing reads a member of in turn
reads(handler, content) ==
  CASE handler = "dexscreener_search" -> {"priceChange", "volume"}
    [] handler = "dexscreener_trending" -> {"priceChange", "volume", "txns"}
    [] handler = "dexscreener_chain_pairs" ->
         {"volume", "priceChange", "txns"} \cap {sortByIn(content)}
    [] OTHER -> {}

RECURSIVE mainPair_latest(_)
\* a reduce that lets a later pair of equal liquidity take the place of an earlier one
mainPair_latest(pairs) ==
  IF Len(pairs) = 1 THEN pairs[1]
  ELSE LET prev == mainPair_latest(SubSeq(pairs, 1, Len(pairs) - 1))
           curr == pairs[Len(pairs)]
           usd(p) == IF Has(p, "liquidity") THEN p.liquidityUsd ELSE 0
       IN IF usd(curr) >= usd(prev) THEN curr ELSE prev

RECURSIVE mainPair(_)
\* pairs.reduce((prev, curr) => (curr.liquidity?.usd || 0) > (prev.liquidity?.usd || 0)
\* ? curr : prev) over entries that are all objects
mainPair(pairs) ==
  IF Len(pairs) = 1 THEN pairs[1]
  ELSE LET prev == mainPair(SubSeq(pairs, 1, Len(pairs) - 1))
           curr == pairs[Len(pairs)]
           usd(p) == IF Has(p, "liquidity") THEN p.liquidityUsd ELSE 0
       IN IF usd(curr) > usd(prev) THEN curr ELSE prev

\* building the listing reads a member of null or undefined
listingThrows(handler, content, items) ==
  \/ \E i \in 1..Len(listed(handler, items)) :
       \/ listed(handler, items)[i].t \in {"null", "undefined"}
       \/ \E member \in reads(handler, content) : ~Has(listed(handler, items)[i], member)
  \/ /\ handler = "dexscreener_token_info"
     /\ \/ \E i \in 1..Len(items) : items[i].t \in {"null", "undefined"}
        \/ ~Has(mainPair(items), "priceChange")
        \/ ~Has(mainPair(items), "volume")

\* the calls of the formatters a listing makes for a pair, each the formatter and its
\* argument: formatPrice(pair.priceUsd || pair.priceNative),
\* formatPriceChange(pair.priceChange.h24), formatUsdValue(pair.volume.h24), and
\* formatUsdValue of liquidity.usd, marketCap and fdv where the member is truthy
PriceCall(pair) ==
  <<"formatPrice", JString(IF Has(pair, "priceUsd") /\ pair.priceUsd # <<>>
                           THEN pair.priceUsd ELSE pair.priceNative)>>
ChangeCall(pair) == <<"formatPriceChange", JNumber(pair.priceChangeH24)>>
VolumeCall(pair) == <<"formatUsdValue", JNumber(pair.volumeH24)>>
LiquidityCalls(pair) ==
  IF Has(pair, "liquidity") /\ pair.liquidityUsd # 0
  THEN <<<<"formatUsdValue", JNumber(pair.liquidityUsd)>>>> ELSE <<>>
MarketCapCalls(pair) ==
  IF Has(pair, "marketCap") /\ pair.marketCap # 0
  THEN <<<<"formatUsdValue", JNumber(pair.marketCap)>>>> ELSE <<>>
FdvCalls(pair) ==
  IF Has(pair, "fdv") /\ pair.fdv # 0 THEN <<<<"formatUsdValue", JNumber(pair.fdv)>>>> ELSE <<>>

\* the calls made for one entry, and whether reading a member of null or undefined
\* ended them
Calls(calls, threw) == [calls |-> calls, threw |-> threw]

\* the callback of map for one entry of a listing, in the order of its expressions
entryCalls(handler, content, pair) ==
  CASE handler = "dexscreener_search" ->
         IF ~Has(pair, "priceChange") THEN Calls(<<>>, TRUE)
         ELSE IF ~Has(pair, "volume") THEN Calls(<<ChangeCall(pair), PriceCall(pair)>>, TRUE)
         ELSE Calls(<<ChangeCall(pair), PriceCall(pair), VolumeCall(pair)>>
                      \o LiquidityCalls(pair), FALSE)
    [] handler = "dexscreener_token_info" ->
         IF pair.t \in {"null", "undefined"} THEN Calls(<<>>, TRUE)
         ELSE Calls(<<PriceCall(pair)>> \o LiquidityCalls(pair), FALSE)
    [] handler = "dexscreener_trending" ->
         IF ~Has(pair, "priceChange") THEN Calls(<<>>, TRUE)
         ELSE IF ~Has(pair, "volume") THEN Calls(<<ChangeCall(pair), PriceCall(pair)>>, TRUE)
         ELSE Calls(<<ChangeCall(pair), PriceCall(pair), VolumeCall(pair)>>
                      \o MarketCapCalls(pair), ~Has(pair, "txns"))
    [] handler = "dexscreener_new_pairs" ->
         IF pair.t \in {"null", "undefined"} THEN Calls(<<>>, TRUE)
         ELSE Calls(<<PriceCall(pair)>> \o LiquidityCalls(pair), FALSE)
    [] handler = "dexscreener_chain_pairs" ->
         IF pair.t \in {"null", "undefined"} THEN Calls(<<>>, TRUE)
         ELSE CASE sortByIn(content) = "volume" ->
                     IF ~Has(pair, "volume") THEN Calls(<<>>, TRUE)
                     ELSE Calls(<<VolumeCall(pair), PriceCall(pair)>>, FALSE)
                [] sortByIn(content) = "liquidity" ->
                     Calls(LiquidityCalls(pair) \o <<PriceCall(pair)>>, FALSE)
                [] sortByIn(content) = "priceChange" ->
                     IF ~Has(pair, "priceChange") THEN Calls(<<>>, TRUE)
                     ELSE Calls(<<ChangeCall(pair), PriceCall(pair)>>, FALSE)
                [] OTHER ->
                     IF ~Has(pair, "txns") THEN Calls(<<>>, TRUE)
                     ELSE Calls(<<PriceCall(pair)>>, FALSE)
    [] OTHER -> Calls(<<>>, pair.t \in {"null", "undefined"})

\* the text of the token-info handler about its main pair
mainPairCalls(pair) ==
  IF ~Has(pair, "priceChange") THEN <<PriceCall(pair)>>
  ELSE IF ~Has(pair, "volume") THEN <<PriceCall(pair), ChangeCall(pair)>>
  ELSE <<PriceCall(pair), ChangeCall(pair), VolumeCall(pair)>>
         \o MarketCapCalls(pair) \o FdvCalls(pair)

RECURSIVE Flat(_)
\* the sequences of a sequence, one after the other
Flat(seqs) == IF seqs = <<>> THEN <<>> ELSE Head(seqs) \o Flat(Tail(seqs))

\* the calls of the formatters a handler makes while it builds its listing from
\* result.data, up to the entry that makes it throw
listingCalls(handler, content, items) ==
  IF /\ handler = "dexscreener_token_info"
     /\ \E i \in 1..Len(items) : items[i].t \in {"null", "undefined"}
  THEN <<>>
  ELSE LET entries == listed(handler, items)
           stops == {i \in 1..Len(entries) : entryCalls(handler, content, entries[i]).threw}
           last == IF stops = {} THEN Len(entries) ELSE Least(stops)
           calls == Flat([i \in 1..last |-> entryCalls(handler, content, entries[i]).calls])
       IN IF handler = "dexscreener_token_info" /\ items # <<>>
          THEN calls \o mainPairCalls(mainPair(items))
          ELSE calls

\* the calls of the formatters a handler makes after its await
handlerCalls(handler, content, res) ==
  IF ~res.success \/ ~Truthy(res.data) \/ res.data.shape # "array" THEN <<>>
  ELSE listingCalls(handler, content, res.data.items)

\* a formatter of the service called with an argument, and what it returned
Called(service, c) == Formatted(c[1], c[2], service[c[1]][c[2]])

\* a handler that reports a failure without the client's error string
handlerReply_noError(handler, content, res) ==
  IF ~res.success \/ ~Truthy(res.data)
  THEN Reply("returned",
             Text("failed", failureLead(handler), argument(handler, content), "", <<>>),
             handler, JUndefined, "")
  ELSE Reply("returned",
             Text("listing", heading(handler, content), argument(handler, content), "",
                  listed(handler, res.data.items)),
             handler, JArray(returned(handler, res.data.items)), "")

\* a handler after its await: the reply it builds from the client's result
handlerReply(handler, content, res) ==
  IF ~res.success \/ ~Truthy(res.data)
  THEN Reply("returned",
             Text("failed", failureLead(handler), argument(handler, content), res.error, <<>>),
             handler, JUndefined, "")
  ELSE IF res.data.shape # "array" THEN Reply("threw", NoText, "", JUndefined, "TypeError")
  ELSE IF emptyLead(handler) # "" /\ res.data.items = <<>>
  THEN Reply("returned",
             Text("empty", emptyLead(handler), argument(handler, content), "", <<>>),
             handler, JUndefined, "")
  ELSE IF listingThrows(handler, content, res.data.items)
  THEN Reply("threw", NoText, "", JUndefined, "TypeError")
  ELSE Reply("returned",
             Headed(Text("listing", heading(handler, content), argument(handler, content), "",
                         listed(handler, res.data.items)),
                    IF handler = "dexscreener_token_info"
                    THEN mainPair(res.data.items) ELSE Undefined),
             handler, JArray(returned(handler, res.data.items)), "")

\* An action is offered a message: when its validate rejects the message the handler
\* is not run; otherwise the handler runs up to its await: it returns its guidance at
\* once, or calls the client
handle(s, handler, content) ==
  /\ s \in DOMAIN pc
  /\ pc[s] = "idle"
  /\ handling[s].at = "none"
  /\ UNCHANGED <<formatted, console>>
  /\ IF ~validate(handler, content)
     THEN /\ handling' = [handling EXCEPT ![s] = Handling(handler, content, "rejected")]
          /\ UNCHANGED <<now, lastRequestTime, pc, call, wake, answer, lookups, overtook,
                         result, sent, reply, stamps>>
     ELSE IF guidance(handler, content) # ""
     THEN /\ handling' = [handling EXCEPT ![s] = Handling(handler, content, "ended")]
          /\ reply' = [reply EXCEPT ![s] =
                         Reply("returned",
                               Text("guidance", guidance(handler, content), <<>>, "", <<>>),
                               handler, JUndefined, "")]
          /\ UNCHANGED <<now, lastRequestTime, pc, call, wake, answer, lookups, overtook,
                         result, sent, stamps>>
     ELSE /\ Start(s, clientCall(handler, content))
          /\ handling' = [handling EXCEPT ![s] = Handling(handler, content, "awaiting")]
          /\ UNCHANGED reply

searchTokensAction(s, content) == handle(s, "dexscreener_search", content)
getTokenInfoAction(s, content) == handle(s, "dexscreener_token_info", content)
getTrendingAction(s, content) == handle(s, "dexscreener_trending", content)
getNewPairsAction(s, content) == handle(s, "dexscreener_new_pairs", content)
getPairsByChainAction(s, content) == handle(s, "dexscreener_chain_pairs", content)
getBoostedTokensAction(s, content) == handle(s, "dexscreener_boosted_tokens", content)
getTokenProfilesAction(s, content) == handle(s, "dexscreener_token_profiles", content)

\* The client's promise has resolved: the handler goes on from its await, calls the
\* formatters of the service it got from the runtime, and ends
handlerResumes(s, service) ==
  /\ s \in DOMAIN pc
  /\ pc[s] = "done"
  /\ handling[s].at = "awaiting"
  /\ UNCHANGED <<console, stamps>>
  /\ LET calls == handlerCalls(handling[s].handler, handling[s].content, result[s])
     IN formatted' = IF calls = <<>> THEN formatted ELSE Called(service, calls[Len(calls)])
  /\ handling' = [handling EXCEPT ![s].at = "ended"]
  /\ reply' = [reply EXCEPT ![s] =
                 handlerReply(handling[s].handler, handling[s].content, result[s])]
  /\ UNCHANGED <<now, lastRequestTime, pc, call, wake, answer, lookups, overtook, result,
                 sent>>

-----------------------------------------------------------------------------
(* SpecActions: one message to any handler against every upstream answer *)

RECURSIVE Sentence(_)
\* words joined by single spaces
Sentence(words) ==
  IF Len(words) = 0 THEN <<>>
  ELSE IF Len(words) = 1 THEN words[1]
  ELSE words[1] \o <<" ">> \o Sentence(Tail(words))

\* a token address as a message carries it, and one a digit short
Address == kw0x \o [i \in 1..AddressDigits |-> IF i % 2 = 0 THEN "A" ELSE "7"]
ShortAddress == SubSeq(Address, 1, Len(Address) - 1)

\* the parts of a search message: its word, whether "for" follows, the query as it was
\* typed, and the name in a closing "on dexscreener" (<<>> when there is no such clause)
SearchParts ==
  {<<"S", "e", "a", "r", "c", "h">>, <<"f", "i", "n", "d">>, <<"L", "o", "o", "k", " ", "f", "o", "r">>}
    \X BOOLEAN
    \X {<<"P", "E", "P", "E">>, <<"U", "S", "D", "C", " ", "p", "a", "i", "r", "s">>, <<"d", "o", "g", "e", " ">>}
    \X {<<>>, <<"D", "e", "x", "S", "c", "r", "e", "e", "n", "e", "r">>}

\* the message made of such parts
SearchForm(p) ==
  p[1] \o <<" ">> \o (IF p[2] THEN kwFor \o <<" ">> ELSE <<>>) \o p[3]
    \o (IF p[4] = <<>> THEN <<>> ELSE <<" ">> \o kwOn \o <<" ">> \o p[4])

\* the parts of a trending message: the digits of a "top N" phrase and a timeframe
\* token, each <<>> when the message has none
TrendingParts == {<<>>, <<"0">>, <<"3">>, <<"1", "2">>} \X ({<<>>} \cup Timeframes)

\* the message made of such parts
TrendingForm(p) ==
  Sentence((IF p[1] = <<>> THEN <<<<"S", "h", "o", "w">>>> ELSE <<<<"T", "o", "p">>, p[1]>>)
             \o <<<<"t", "r", "e", "n", "d", "i", "n", "g">>, <<"t", "o", "k", "e", "n", "s">>>>
             \o (IF p[2] = <<>> THEN <<>> ELSE <<<<"l", "a", "s", "t">>, p[2]>>))

\* the parts of a chain-pairs message: the sort keywords in it, in the order in which
\* they stand, and the chain as it is typed
ChainParts ==
  {<<>>, <<<<"l", "i", "q", "u", "i", "d">>>>, <<<<"g", "a", "i", "n">>>>, <<<<"c", "h", "a", "n", "g", "e">>>>, <<<<"a", "c", "t", "i", "v", "e">>>>, <<<<"t", "r", "a", "d", "e", "s">>>>,
   <<<<"g", "a", "i", "n">>, <<"l", "i", "q", "u", "i", "d">>>>, <<<<"t", "r", "a", "d", "e", "s">>, <<"c", "h", "a", "n", "g", "e">>>>, <<<<"a", "c", "t", "i", "v", "e">>, <<"g", "a", "i", "n">>, <<"l", "i", "q", "u", "i", "d">>>>}
    \X {<<"e", "t", "h", "e", "r", "e", "u", "m">>, <<"S", "o", "l", "a", "n", "a">>, <<"b", "a", "s", "e">>}

\* the message made of such parts
ChainForm(p) == Sentence(<<<<"t", "o", "p">>>> \o p[1] \o <<<<"p", "a", "i", "r", "s">>, <<"o", "n">>, p[2]>>)

\* the messages the handlers are given
Messages ==
  {Sentence(<<<<"S", "e", "a", "r", "c", "h">>, <<"f", "o", "r">>, <<"P", "E", "P", "E">>>>),
   Sentence(<<<<"F", "i", "n", "d">>, <<"U", "S", "D", "C">>, <<"p", "a", "i", "r", "s">>, <<"o", "n">>, <<"d", "e", "x", "s", "c", "r", "e", "e", "n", "e", "r">>>>),
   Sentence(<<<<"s", "e", "a", "r", "c", "h">>>>),
   kwSearch \o <<" ", " ">>,
   Sentence(<<<<"f", "i", "n", "d", "e", "r">>>>),
   Sentence(<<<<"G", "e", "t">>, <<"t", "o", "k", "e", "n">>, <<"i", "n", "f", "o">>, <<"f", "o", "r">>, Address>>),
   Sentence(<<<<"t", "o", "k", "e", "n">>, <<"p", "r", "i", "c", "e">>, ShortAddress>>),
   Sentence(<<<<"W", "h", "a", "t">>, <<"i", "s">>, <<"t", "h", "e">>, <<"p", "r", "i", "c", "e">>, <<"o", "f">>, <<"t", "h", "i", "s">>, <<"t", "o", "k", "e", "n", "?">>>>),
   Sentence(<<<<"S", "h", "o", "w">>, <<"m", "e">>, <<"t", "r", "e", "n", "d", "i", "n", "g">>, <<"t", "o", "k", "e", "n", "s">>>>),
   Sentence(<<<<"t", "o", "p">>, <<"1">>, <<"h", "o", "t">>, <<"t", "o", "k", "e", "n", "s">>, <<"6", "h">>>>),
   Sentence(<<<<"S", "h", "o", "w">>, <<"m", "e">>, <<"n", "e", "w">>, <<"p", "a", "i", "r", "s">>, <<"o", "n">>, <<"D", "e", "x", "S", "c", "r", "e", "e", "n", "e", "r">>>>),
   Sentence(<<<<"n", "e", "w">>, <<"t", "o", "k", "e", "n", "s">>, <<"o", "n">>, <<"E", "T", "H">>>>),
   Sentence(<<<<"1">>, <<"n", "e", "w">>, <<"l", "i", "s", "t", "i", "n", "g", "s">>, <<"o", "n">>, <<"s", "o", "l">>>>),
   Sentence(<<<<"a", "n", "y">>, <<"n", "e", "w">>, <<"p", "a", "i", "r", "s", "?">>>>),
   Sentence(<<<<"T", "o", "p">>, <<"t", "o", "k", "e", "n", "s">>, <<"o", "n">>, <<"E", "t", "h", "e", "r", "e", "u", "m">>>>),
   Sentence(<<<<"m", "o", "s", "t">>, <<"l", "i", "q", "u", "i", "d">>, <<"p", "a", "i", "r", "s">>, <<"o", "n">>, <<"s", "o", "l", "a", "n", "a">>>>),
   Sentence(<<<<"e", "t", "h", "e", "r", "e", "u", "m">>, <<"g", "a", "i", "n", "e", "r", "s">>>>),
   Sentence(<<<<"m", "o", "s", "t">>, <<"a", "c", "t", "i", "v", "e">>, <<"b", "a", "s", "e">>, <<"p", "a", "i", "r", "s">>>>),
   Sentence(<<<<"b", "o", "o", "s", "t", "e", "d">>, <<"t", "o", "k", "e", "n", "s">>>>),
   Sentence(<<<<"T", "o", "p">>, <<"p", "r", "o", "m", "o", "t", "e", "d">>, <<"t", "o", "k", "e", "n", "s">>>>),
   Sentence(<<<<"l", "a", "t", "e", "s", "t">>, <<"t", "o", "k", "e", "n">>, <<"p", "r", "o", "f", "i", "l", "e", "s">>>>)}
    \cup {Sentence(<<<<"T", "O", "K", "E", "N">>, <<"P", "R", "I", "C", "E">>, Address>>), Sentence(<<<<"T", "o", "k", "e", "n">>, <<"D", "e", "t", "a", "i", "l", "s">>>>),
          Sentence(<<<<"W", "H", "A", "T">>, <<"I", "S">>, <<"T", "R", "E", "N", "D", "I", "N", "G", "?">>>>), Sentence(<<<<"N", "E", "W">>, <<"L", "i", "s", "t", "i", "n", "g", "s">>>>),
          Sentence(<<<<"T", "o", "k", "e", "n">>, <<"P", "R", "O", "F", "I", "L", "E", "S">>>>), Sentence(<<<<"S", "P", "O", "N", "S", "O", "R", "E", "D">>>>)}
    \cup {SearchForm(p) : p \in SearchParts}
    \cup {TrendingForm(p) : p \in TrendingParts}
    \cup {ChainForm(p) : p \in ChainParts}

\* pairs of the chains the chain-pairs handler asks for
PE == Pair("PE", chains[1], <<>>, 4, 2, 3, 1, 1, <<"2">>, <<"4">>, 0, 0, {"marketCap", "fdv"})
PS == Pair("PS", chains[7], <<"hot">>, 6, 0, 0, 2, 0, <<"2">>, <<"4">>, 0, 0,
           {"liquidity", "txns", "marketCap", "fdv"})

PT == Pair("PT", chains[1], <<"new">>, 1, 2, 0, 0, 0, <<"2">>, <<"4">>, 0, 0, {"marketCap", "fdv"})

\* more pairs than any handler lists
LongPairs == [i \in 1..(ListedMost + 1) |-> IF i % 2 = 1 THEN PE ELSE PT]

\* the prices and the amounts of the pairs the upstream returns
PairPrices ==
  {JString(x.priceUsd) : x \in PairPool \cup {PE, PS, PT}}
    \cup {JString(x.priceNative) : x \in PairPool \cup {PE, PS, PT}}
PairAmounts ==
  UNION {{JNumber(x.priceChangeH24), JNumber(x.volumeH24), JNumber(x.liquidityUsd),
          JNumber(x.marketCap), JNumber(x.fdv)} : x \in PairPool \cup {PE, PS, PT}}

\* runtime.getService('dexscreener'): the formatters of the service, each computed
\* once for each price or amount of a pair
getService ==
  [formatPrice |-> [price \in PairPrices |-> formatPrice(price)],
   formatPriceChange |-> [change \in PairAmounts |-> formatPriceChange(change)],
   formatUsdValue |-> [value \in PairAmounts |-> formatUsdValue(value)]]

\* the upstream answers to a search: those of Spec, and lists of the chains' pairs
ActionSearchOutcomes ==
  SearchOutcomes
    \cup {Resolved(PairsBody(JArray(xs))) : xs \in SeqsUpTo({PE, PS, PA, PT}, MaxList)}
    \cup {Resolved(PairsBody(JArray(LongPairs)))}

\* the upstream answers to a listing: every rejection and shape of body, the lists
\* over tokens whose lookups answer with a pair, a pair short of a member, an empty
\* array and a rejection
ActionListingOutcomes ==
  Rejections \cup {Resolved(NullBody), Resolved(ObjectBody(Ta)), Resolved(ArrayBody(LongList))}
    \cup {Resolved(ArrayBody(xs)) : xs \in SeqsUpTo({Ta, Tc, Td, Te, Null}, MaxList)}

InitActions == InitSlots(1)

NextActions ==
  \/ \E s \in Slots, m \in Messages : searchTokensAction(s, m)
  \/ \E s \in Slots, m \in Messages : getTokenInfoAction(s, m)
  \/ \E s \in Slots, m \in Messages : getTrendingAction(s, m)
  \/ \E s \in Slots, m \in Messages : getNewPairsAction(s, m)
  \/ \E s \in Slots, m \in Messages : getPairsByChainAction(s, m)
  \/ \E s \in Slots, m \in Messages : getBoostedTokensAction(s, m)
  \/ \E s \in Slots, m \in Messages : getTokenProfilesAction(s, m)
  \/ \E s \in Slots : apiGet(s)
  \/ \E s \in Slots : Answers(s, "search") /\ \E out \in ActionSearchOutcomes : apiGetSettles(s, out)
  \/ \E s \in Slots : Answers(s, "listing") /\ \E out \in ActionListingOutcomes : apiGetSettles(s, out)
  \/ \E s \in DOMAIN lookups : \E i \in DOMAIN lookups[s] : lookupSettles(s, i)
  \/ \E s \in Slots : join(s)
  \/ \E s \in Slots : handlerResumes(s, getService)

SpecActions == InitActions /\ [][NextActions]_vars

-----------------------------------------------------------------------------
(* SpecFormat: the formatters on numerals of every tier *)

NextFormat ==
  \/ \E price \in FormatNumbers \cup NotNumbers : formatPriceReturns(price)
  \/ \E price \in FormatStrings \cup NotNumerals : formatPriceReturns(price)
  \/ \E change \in FormatValues : formatPriceChangeReturns(change)
  \/ \E value \in FormatValues : formatUsdValueReturns(value)
  \/ init
  \/ stop

SpecFormat == Init /\ [][NextFormat]_vars

-----------------------------------------------------------------------------
(* SpecStamp: operations in flight together, with stop and the formatters *)

\* The first call may be getTrending, with its fan-out; the calls after it are search
\* or a getMultipleTokens that is rejected.

\* one Number for each formatter
StampNumber == Num("", <<>>, <<>>)

\* getMultipleTokens with one address too many
LongTokenCalls == {c \in SequentialTokenCalls : TooMany(c)}

NextStamp ==
  \/ Tick
  \/ \E s \in Slots, c \in PacingCalls("search") : InOrder(s) /\ search(s, c)
  \/ \E c \in PacingCalls("getTrending") : getTrending(1, c)
  \/ \E s \in Slots, c \in LongTokenCalls : InOrder(s) /\ getMultipleTokens(s, c)
  \/ \E s \in Slots : rateLimitResume(s)
  \/ \E s \in Slots : apiGet(s)
  \/ \E s \in Slots : Answers(s, "search") /\ \E out \in PacingSearchOutcomes : apiGetSettles(s, out)
  \/ \E s \in Slots : Answers(s, "listing") /\ \E out \in PacingListingOutcomes : apiGetSettles(s, out)
  \/ \E s \in DOMAIN lookups : \E i \in DOMAIN lookups[s] : lookupSettles(s, i)
  \/ \E s \in Slots : join(s)
  \/ formatPriceReturns(StampNumber)
  \/ formatPriceChangeReturns(StampNumber)
  \/ formatUsdValueReturns(StampNumber)
  \/ init
  \/ stop

SpecStamp == InitPacing /\ [][NextStamp]_vars

-----------------------------------------------------------------------------
(* SpecTwins: two calls of getTrending against the same upstream responses *)

\* a call without what it says of the timeframe
Untimed(c) == [c EXCEPT !.timeframe = <<>>, !.omitted = @ \cup {"timeframe"}]

\* the listing responses the two calls are answered with
TwinListingOutcomes ==
  {Rejected("", "Network Error"), Resolved(NullBody), Resolved(ArrayBody(<<Ta>>)),
   Resolved(ArrayBody(<<Ta, Tc>>)), Resolved(ArrayBody(<<Td, Ta>>))}

\* The second call is made when the first has returned; it differs from the first in
\* its timeframe at most, and its listing request is answered as the first one's
\* was; a lookup is answered by its token address in either call.
NextTwins ==
  \/ Tick
  \/ \E c \in TrendingCalls : getTrending(1, c)
  \/ \E c \in TrendingCalls :
       EachAwaited(2) /\ Untimed(c) = Untimed(call[1]) /\ getTrending(2, c)
  \/ \E s \in Slots : rateLimitResume(s)
  \/ \E s \in Slots : apiGet(s)
  \/ \E out \in TwinListingOutcomes : Answers(1, "listing") /\ apiGetSettles(1, out)
  \/ Answers(2, "listing") /\ apiGetSettles(2, answer[1][1])
  \/ \E s \in DOMAIN lookups : \E i \in DOMAIN lookups[s] : lookupSettles(s, i)
  \/ \E s \in Slots : join(s)

SpecTwins == InitSlots(2) /\ [][NextTwins]_vars

-----------------------------------------------------------------------------
(* SpecLive: operations in flight together, with what the event loop and the HTTP
   client guarantee *)

\* The first call may be getTrending, with its fan-out; the calls after it are search.

\* the clock reaches the time a pending timer is due, also beyond EndTime
TimerComesDue ==
  /\ \E s \in DOMAIN pc : pc[s] = "sleeping" /\ now < wake[s]
  /\ now' = now + 1
  /\ UNCHANGED <<lastRequestTime, pc, call, wake, answer, lookups, overtook, result, sent,
                 handling, reply, formatted, console, stamps>>

\* a request in flight settles: api is created with timeout: 10000
Settles(s) ==
  \/ Answers(s, "search") /\ \E out \in PacingSearchOutcomes : apiGetSettles(s, out)
  \/ Answers(s, "listing") /\ \E out \in PacingListingOutcomes : apiGetSettles(s, out)

NextLive ==
  \/ Tick
  \/ TimerComesDue
  \/ \E s \in Slots, c \in PacingCalls("search") : InOrder(s) /\ search(s, c)
  \/ \E c \in PacingCalls("getTrending") : getTrending(1, c)
  \/ \E s \in Slots : rateLimitResume(s)
  \/ \E s \in Slots : apiGet(s)
  \/ \E s \in Slots : Settles(s)
  \/ \E s \in DOMAIN lookups : \E i \in DOMAIN lookups[s] : lookupSettles(s, i)
  \/ \E s \in Slots : join(s)

\* Time passes while a timer is pending, a timer that is due fires, a request settles
\* (with a response, an error or the timeout), and a continuation that is ready runs.
\* Nothing obliges a caller to make a call.
Fairness ==
  /\ WF_vars(TimerComesDue)
  /\ \A s \in Slots : WF_vars(rateLimitResume(s))
  /\ \A s \in Slots : WF_vars(apiGet(s))
  /\ \A s \in Slots : WF_vars(Settles(s))
  /\ \A s \in Slots : WF_vars(\E i \in DOMAIN lookups[s] : lookupSettles(s, i))
  /\ \A s \in Slots : WF_vars(join(s))

SpecLive == InitPacing /\ [][NextLive]_vars /\ Fairness

-----------------------------------------------------------------------------
(* The claims *)

Done(s) == s \in DOMAIN pc /\ pc[s] = "done"

\* positions in sent of the per-token lookups of operation s
LookupsSent(s) ==
  {i \in 1..Len(sent) :
     sent[i].slot = s /\ sent[i].path = "/tokens/v1" /\ sent[i].token # Undefined}

\* the first pair a settled lookup fetched, null when it fetched none
FirstFetched(l) ==
  IF l.settled /\ l.response.ok /\ l.response.data.shape = "array"
     /\ l.response.data.items # <<>>
  THEN l.response.data.items[1]
  ELSE Null

IsPair(x) == x.t = "pair"

\* C1: every operation ends by resolving, never by rejecting, and what it resolves
\* to is success with a defined payload or failure with a non-empty error text,
\* whatever the upstream answered (a response, a rejection, a malformed payload).
C1_AlwaysServiceResult ==
  \A s \in DOMAIN pc :
    /\ pc[s] # "rejected"
    /\ pc[s] = "done" =>
         \/ result[s].success /\ result[s].data.shape # "undefined"
         \/ ~result[s].success /\ result[s].error # ""

\* an operation has ended in a failure result on a null payload of a request that succeeded
C1_Witness ==
  \E s \in DOMAIN pc :
    /\ Done(s) /\ answer[s] # <<>>
    /\ answer[s][1].ok /\ answer[s][1].data.shape = "null"
    /\ ~result[s].success /\ result[s].error # ""

\* C2 (as claimed): every request that goes out, the per-token lookups included, had
\* a pacing step of its own, which found at least rateLimitDelay passed since the
\* recorded last-request time and recorded the time before the request went out.
C2_EveryRequestPaced ==
  \A i \in 1..Len(sent) :
    /\ sent[i].paced
    /\ sent[i].stamp <= sent[i].at
    /\ sent[i].stamp - sent[i].prev >= rateLimitDelay

\* C3 (as claimed): of the search requests of operations in flight together, no two
\* go out less than rateLimitDelay apart.
C3_NoBurst ==
  \A i, j \in 1..Len(sent) :
    (i < j /\ sent[i].path = "/latest/dex/search" /\ sent[j].path = "/latest/dex/search")
      => sent[j].at - sent[i].at >= rateLimitDelay

\* C4: getMultipleTokens with more than 30 addresses fails with "Maximum 30 token
\* addresses allowed", sends no request and leaves lastRequestTime as it was; with
\* 30 or fewer it is not rejected for its length and, once its pacing step is over,
\* its request has gone out.
C4_MaximumAddresses ==
  \A s \in DOMAIN pc :
    (call[s].kind = "getMultipleTokens" /\ pc[s] # "idle") =>
      IF call[s].count > 30
      THEN /\ Done(s)
           /\ result[s] = Failure("Maximum 30 token addresses allowed")
           /\ \A i \in 1..Len(sent) : sent[i].slot # s
           /\ lastRequestTime = 0
      ELSE /\ result[s].error # "Maximum 30 token addresses allowed"
           /\ pc[s] \notin {"sleeping", "paced"} => \E i \in 1..Len(sent) : sent[i].slot = s

\* a call with 31 addresses has been rejected
C4_Witness ==
  \E s \in DOMAIN pc :
    Done(s) /\ call[s].kind = "getMultipleTokens" /\ call[s].count = 31 /\ ~result[s].success

\* C5: the first request of getTrending is the promoted-tokens listing, and the pairs
\* it returns are the first pairs its lookups fetched, in the order of the promoted
\* tokens, in whatever order the lookups settled.
C5_TrendingOrder ==
  \A s \in DOMAIN pc :
    call[s].kind = "getTrending" =>
      /\ \A i \in 1..Len(sent) :
           (sent[i].slot = s /\ \A j \in 1..(i - 1) : sent[j].slot # s)
             => sent[i].path = "/token-boosts/top/v1"
      /\ (Done(s) /\ result[s].success) =>
           SelectSeq(result[s].data.items, IsPair)
             = SelectSeq([i \in 1..Len(lookups[s]) |-> FirstFetched(lookups[s][i])], IsPair)

\* getTrending has returned two pairs or more after a lookup overtook an earlier one
C5_Witness ==
  \E s \in DOMAIN pc :
    /\ Done(s) /\ call[s].kind = "getTrending" /\ overtook[s]
    /\ Len(SelectSeq(result[s].data.items, IsPair)) >= 2
    /\ result[s].data.items[1] # result[s].data.items[2]

\* C6 (as claimed): every element getTrending returns is a pair; there is no null or
\* undefined placeholder among them.
C6_NoPlaceholder ==
  \A s \in DOMAIN pc :
    (Done(s) /\ call[s].kind = "getTrending" /\ result[s].success) =>
      \A k \in 1..Len(result[s].data.items) : IsPair(result[s].data.items[k])

\* the limit a caller of call c asked for: the one passed, 10 when none is passed
AskedLimit(c) == IF "limit" \in c.omitted THEN 10 ELSE c.limit

\* C7 (as claimed): getTrending looks up at most limit tokens and returns at most
\* limit pairs, for every limit of 0 or more (10 when none is passed).
C7_AtMostLimit ==
  \A s \in DOMAIN pc :
    call[s].kind = "getTrending" =>
      /\ Cardinality(LookupsSent(s)) <= AskedLimit(call[s])
      /\ (Done(s) /\ result[s].success) =>
           Len(result[s].data.items) <= AskedLimit(call[s])

\* the listing request of operation s has succeeded
ListingSucceeded(s) ==
  /\ s \in DOMAIN pc /\ call[s].kind \in Aggregates
  /\ answer[s] # <<>> /\ answer[s][1].ok

\* the chain filter of getNewPairs has read a member of a null profile
NullProfileFiltered(s) ==
  /\ call[s].kind = "getNewPairs" /\ "chain" \notin call[s].omitted
  /\ call[s].chain # <<>>
  /\ \E i \in 1..Len(AsList(answer[s][1].data)) : AsList(answer[s][1].data)[i] = Null

\* C8 (as claimed): once the listing request of getTrending or getNewPairs has
\* succeeded, the operation returns success, whatever becomes of its per-token tasks.
C8_SuccessAfterListing ==
  \A s \in DOMAIN pc : (ListingSucceeded(s) /\ Done(s)) => result[s].success

\* how many of the labels are "new"
CountNew(labels) == Cardinality({k \in 1..Len(labels) : labels[k] = "new"})

\* C9: every pair getNewPairs returns carries "new": the labels of the fetched pair
\* unchanged when they contain it, otherwise those labels followed by one "new";
\* the fetched pair itself, as the response holds it, stays as the upstream sent it.
C9_NewLabel ==
  \A s \in DOMAIN pc :
    call[s].kind = "getNewPairs" =>
      /\ \A i \in 1..Len(lookups[s]) :
           LET l == lookups[s][i]
               fetched == FirstFetched(l)
           IN (l.settled /\ fetched # Null) =>
                /\ l.response = TokenLookup(l.token.tokenAddress)
                /\ Has(l.value, "labels")
                /\ IF Has(fetched, "labels") /\ includes(fetched.labels, "new")
                   THEN l.value.labels = fetched.labels
                   ELSE /\ l.value.labels
                             = (IF Has(fetched, "labels") THEN fetched.labels ELSE <<>>) \o <<"new">>
                        /\ CountNew(l.value.labels) = 1
                /\ \A m \in {"id", "chainId", "volumeH24", "liquidityUsd"} :
                     l.value[m] = fetched[m]
      /\ (Done(s) /\ result[s].success) =>
           \A k \in 1..Len(result[s].data.items) :
             /\ IsPair(result[s].data.items[k])
             /\ includes(result[s].data.items[k].labels, "new")

\* getNewPairs has returned a pair that came with "new" and one that came without labels
C9_Witness ==
  \E s \in DOMAIN pc :
    /\ Done(s) /\ call[s].kind = "getNewPairs" /\ Len(result[s].data.items) = 2
    /\ result[s].data.items[1].id = "PB" /\ result[s].data.items[1].labels = <<"hot", "new">>
    /\ result[s].data.items[2].id = "PA" /\ result[s].data.items[2].labels = <<"new">>

\* a profile is of the chain asked for, compared without regard to case
OfChain(c, p) == Has(p, "chainId") /\ toLowerCase(p.chainId) = toLowerCase(c.chain)

\* C10 (as claimed): getNewPairs with a chain looks up only profiles of that chain,
\* compared without regard to case, and the filter comes before the cut to limit (10
\* when no limit is passed): the profiles looked up are the first limit matching
\* ones of the listing, wherever the non-matching ones stand.
C10_FilterBeforeLimit ==
  \A s \in DOMAIN pc :
    (ListingSucceeded(s) /\ call[s].kind = "getNewPairs" /\ "chain" \notin call[s].omitted
       /\ call[s].chain # <<>> /\ ~NullProfileFiltered(s)) =>
      LET c == call[s]
          Matches(p) == OfChain(c, p)
          matching == SelectSeq(AsList(answer[s][1].data), Matches)
      IN /\ \A i \in LookupsSent(s) : OfChain(c, sent[i].token)
         /\ [i \in 1..Len(lookups[s]) |-> lookups[s][i].token]
              = slice(matching, AskedLimit(c))

\* getPairsByChain has returned a list
ChainPairsReturned(s) ==
  /\ Done(s) /\ call[s].kind = "getPairsByChain" /\ result[s].success

\* the pairs of the search response that are of the chain asked for
OfChainPairs(s) ==
  LET c == call[s]
      Matches(p) == OfChain(c, p)
  IN SelectSeq(answer[s][1].data.pairs.items, Matches)

\* C11: getPairsByChain returns only pairs whose chain identifier equals the chain
\* asked for, compared without regard to case, whatever the search returned.
C11_OnlyRequestedChain ==
  \A s \in DOMAIN pc :
    ChainPairsReturned(s) =>
      \A k \in 1..Len(result[s].data.items) :
        /\ IsPair(result[s].data.items[k])
        /\ toLowerCase(result[s].data.items[k].chainId) = toLowerCase(call[s].chain)

\* the search returned a pair of another chain and one of the chain asked for, spelt
\* in another case, and only the latter has been returned
C11_Witness ==
  \E s \in DOMAIN pc :
    /\ ChainPairsReturned(s)
    /\ Len(answer[s][1].data.pairs.items) = 2
    /\ ~OfChain(call[s], answer[s][1].data.pairs.items[1])
    /\ Len(result[s].data.items) = 1
    /\ result[s].data.items[1] = answer[s][1].data.pairs.items[2]
    /\ result[s].data.items[1].chainId # call[s].chain

\* the limit a caller of getPairsByChain asked for: the one passed, 20 when none is
AskedChainLimit(c) == IF "limit" \in c.omitted THEN 20 ELSE c.limit

\* how often pair p occurs in the list
Occurrences(xs, p) == Cardinality({k \in 1..Len(xs) : xs[k] = p})

\* the smaller of two numbers
Min(a, b) == IF a <= b THEN a ELSE b

\* C12 (as claimed): with a sort key, the result of getPairsByChain is the first limit
\* elements (20 when no limit is passed) of the pairs of the chain in non-increasing
\* order of the key's 24h metric, a missing metric counting as 0: it has that length,
\* it is in that order, it holds pairs of the chain only as often as the search
\* returned them, and no pair left out ranks strictly above a returned one.
C12_SortedThenCut ==
  \A s \in DOMAIN pc :
    (ChainPairsReturned(s) /\ "sortBy" \notin call[s].omitted) =>
      LET c == call[s]
          R == result[s].data.items
          F == OfChainPairs(s)
      IN /\ Len(R) = Min(AskedChainLimit(c), Len(F))
         /\ \A k \in 1..(Len(R) - 1) : Metric(R[k], c.sortBy) >= Metric(R[k + 1], c.sortBy)
         /\ \A p \in PairPool :
              /\ Occurrences(R, p) <= Occurrences(F, p)
              /\ Occurrences(R, p) < Occurrences(F, p) =>
                   \A k \in 1..Len(R) : Metric(R[k], c.sortBy) >= Metric(p, c.sortBy)

\* getPair has returned after its request succeeded
PairAnswered(s) ==
  /\ Done(s) /\ call[s].kind = "getPair"
  /\ answer[s] # <<>> /\ answer[s][1].ok

\* C13 (as claimed): getPair returns the pair the upstream returned, and fails with
\* "Pair not found" whenever the response carries no pair.
C13_PairOrNotFound ==
  \A s \in DOMAIN pc :
    PairAnswered(s) =>
      LET body == answer[s][1].data
      IN IF body.shape # "null" /\ IsPair(body.pair)
         THEN result[s] = Success(JObject(body.pair))
         ELSE result[s] = Failure("Pair not found")

\* C13 (amended): getPair returns the pair the upstream returned; it fails with "Pair
\* not found" when the response body is an object whose pair is absent or null, and
\* with the message of the thrown error when the body itself is null; it never
\* returns success without a pair.
C13_PairOrFailure ==
  \A s \in DOMAIN pc :
    (Done(s) /\ call[s].kind = "getPair") =>
      /\ result[s].success =>
           /\ PairAnswered(s)
           /\ result[s].data.shape = "object"
           /\ IsPair(result[s].data.items[1])
      /\ PairAnswered(s) =>
           LET body == answer[s][1].data
           IN CASE body.shape = "null" ->
                     /\ ~result[s].success
                     /\ result[s].error = "Cannot read properties of null (reading 'pair')"
                [] body.shape # "null" /\ IsPair(body.pair) ->
                     result[s] = Success(JObject(body.pair))
                [] OTHER -> result[s] = Failure("Pair not found")

\* getPair has answered "Pair not found" to a response whose pair is null
C13_Witness ==
  \E s \in DOMAIN pc :
    /\ PairAnswered(s)
    /\ answer[s][1].data.shape = "object" /\ answer[s][1].data.pair = Null
    /\ result[s] = Failure("Pair not found")

\* the three operations that return a listing as it is
ListingKinds == {"getLatestTokenProfiles", "getLatestBoostedTokens", "getTopBoostedTokens"}

\* C14: getLatestTokenProfiles, getLatestBoostedTokens and getTopBoostedTokens return
\* a list whenever they succeed: the upstream list as it is, and a single upstream
\* object as the one-element list holding it.
C14_AlwaysAList ==
  \A s \in DOMAIN pc :
    (Done(s) /\ call[s].kind \in ListingKinds /\ result[s].success) =>
      LET body == answer[s][1].data
      IN /\ answer[s][1].ok
         /\ result[s].data.shape = "array"
         /\ body.shape = "array" => result[s].data.items = body.items
         /\ body.shape = "object" => result[s].data.items = <<body.items[1]>>

\* a listing operation has returned a one-element list for a single object
C14_Witness ==
  \E s \in DOMAIN pc :
    /\ Done(s) /\ call[s].kind \in ListingKinds /\ result[s].success
    /\ answer[s][1].data.shape = "object"
    /\ result[s].data = JArray(<<Ta>>)

\* positions in sent of the requests of operation s other than its lookups
FirstSent(s) == {i \in 1..Len(sent) : sent[i].slot = s /\ sent[i].token = Undefined}

\* C15: nothing is retried.  An operation with one endpoint sends at most one
\* request, and exactly one once it is past its pacing unless the address list was
\* too long; getTrending and getNewPairs send one listing request and at most one
\* lookup per selected token; this holds whether the requests fail or not.
C15_NoRetry ==
  \A s \in DOMAIN pc :
    /\ Cardinality(FirstSent(s)) <= 1
    /\ \A i \in FirstSent(s) : sent[i].path = Path(call[s].kind)
    /\ (pc[s] \in {"request", "fanout", "done"} /\ ~TooMany(call[s])) =>
         Cardinality(FirstSent(s)) = 1
    /\ IF call[s].kind \in Aggregates
       THEN /\ Cardinality(LookupsSent(s)) <= Len(lookups[s])
            /\ \A i \in LookupsSent(s) :
                 LET same == {j \in LookupsSent(s) : sent[j].token = sent[i].token}
                     asked == {k \in 1..Len(lookups[s]) : lookups[s][k].token = sent[i].token}
                 IN Cardinality(same) = Cardinality(asked)
       ELSE LookupsSent(s) = {}

\* an aggregate has ended with one request per selected token, one of them rejected
C15_Witness ==
  \E s \in DOMAIN pc :
    /\ Done(s) /\ call[s].kind \in Aggregates
    /\ Len(lookups[s]) = 2 /\ Cardinality(LookupsSent(s)) = 2
    /\ \E i \in 1..Len(lookups[s]) : lookups[s][i].settled /\ ~lookups[s][i].response.ok

\* a handler has ended after the client operation it called resolved
Ended(s) == s \in DOMAIN handling /\ handling[s].at = "ended" /\ pc[s] = "done"

\* C16: whenever the client operation a handler called returns success = false, the
\* handler returns a reply whose text is the handler's failure text ending in the
\* client's error string, whose action is the handler's own name, and which carries
\* no data; this holds for each of the seven handlers.
C16_FailureReply ==
  \A s \in DOMAIN handling :
    Ended(s) /\ ~result[s].success =>
      /\ handling[s].handler \in Handlers
      /\ reply[s].ended = "returned"
      /\ reply[s].text.kind = "failed"
      /\ reply[s].text.lead = failureLead(handling[s].handler)
      /\ reply[s].text.error = result[s].error
      /\ result[s].error # ""
      /\ reply[s].action = handling[s].handler
      /\ reply[s].data = JUndefined

\* the chain-pairs handler has reported a failure of the client with the text of the
\* upstream rejection
C16_Witness ==
  \E s \in DOMAIN handling :
    /\ Ended(s) /\ ~result[s].success
    /\ handling[s].handler = "dexscreener_chain_pairs"
    /\ reply[s].text.error = "Rate limit exceeded"
    /\ reply[s].text.arg = chains[7]

\* C17: whenever the client operation a handler called succeeds with an empty list,
\* the handler returns a message saying that nothing was found, never a heading over
\* an empty listing; this is stated of each of the seven handlers.
C17_NoResultsMessage ==
  \A s \in DOMAIN handling :
    Ended(s) /\ result[s].success /\ result[s].data = JArray(<<>>) =>
      /\ reply[s].ended = "returned"
      /\ reply[s].text.kind = "empty"

\* C18: no handler lets an exception through to the host: for every message its
\* validate accepts and every result the client can produce for the operation it
\* called, the handler ends by returning a text.
C18_AlwaysReturns ==
  \A s \in DOMAIN handling :
    handling[s].at = "ended" =>
      /\ reply[s].ended = "returned"
      /\ reply[s].text.kind # "none"

\* the message handler s was given lacks what the handler extracts from it: a token
\* address for the token-info handler, a query for the search handler (its pattern
\* does not match, or what it captures is empty once trimmed)
NothingExtracted(s) ==
  /\ handling[s].at \in {"awaiting", "ended"}
  /\ \/ /\ handling[s].handler = "dexscreener_token_info"
        /\ ~addressMatch(handling[s].content).found
     \/ /\ handling[s].handler = "dexscreener_search"
        /\ \/ ~queryMatch(handling[s].content).found
           \/ trim(queryMatch(handling[s].content).group) = <<>>

\* C19: when the token-info handler finds no 0x-prefixed address of 40 hex digits in
\* its message, or the search handler no query, the handler has returned its guidance
\* text and called no client operation: no request was sent and lastRequestTime is as
\* it was (the handler is the only caller of the client here).
C19_GuidanceWithoutCall ==
  \A s \in DOMAIN handling :
    NothingExtracted(s) =>
      /\ handling[s].at = "ended"
      /\ reply[s].ended = "returned"
      /\ reply[s].action = handling[s].handler
      /\ reply[s].text.lead =
           IF handling[s].handler = "dexscreener_token_info"
           THEN "Please provide a token address. Example: \"Get token info for 0x...\""
           ELSE "Please provide a search query. Example: \"Search for PEPE\""
      /\ call[s] = NoCall
      /\ pc[s] = "idle"
      /\ sent = <<>>
      /\ lastRequestTime = 0

\* the word after "on" in the message handler s was given, <<>> when there is none
WordAfterOn(s) == wordThenGroup(handling[s].content, kwOn, "word").group

\* C20: when the word that follows "on" in a message to the new-pairs handler is not
\* one of the supported chain names, the handler calls no client operation with that
\* word as its chain filter.
C20_UnknownChainNotPassed ==
  \A s \in DOMAIN handling :
    /\ handling[s].handler = "dexscreener_new_pairs"
    /\ WordAfterOn(s) # <<>>
    /\ ~includes(chains, toLowerCase(WordAfterOn(s)))
    => ~(/\ call[s].kind = "getNewPairs"
         /\ "chain" \notin call[s].omitted
         /\ call[s].chain = WordAfterOn(s))

\* an entry with the members that types.ts requires of a pair
IsWholePair(x) ==
  x.t = "pair" /\ Has(x, "priceChange") /\ Has(x, "volume") /\ Has(x, "txns")

\* the requests of operation s that went to a path
SentTo(s, path) == {i \in 1..Len(sent) : sent[i].slot = s /\ sent[i].path = path}

\* C21 as it is stated: for a message "<search|find|look for> [for] Q [on dexscreener]"
\* the search handler calls search exactly once with Q trimmed as the query, shows at
\* most 5 pairs, and its text contains 'Search Results for "Q"'; the one request of
\* the call is out once its pacing step is over.
C21_SearchResultsText ==
  \A s \in DOMAIN handling : \A p \in SearchParts :
    handling[s].handler = "dexscreener_search" /\ handling[s].content = SearchForm(p) =>
      /\ call[s].kind = "search"
      /\ call[s].address = trim(p[3])
      /\ Cardinality(SentTo(s, "/latest/dex/search")) <= 1
      /\ pc[s] \notin {"sleeping", "paced"} => SentTo(s, "/latest/dex/search") # {}
      /\ Ended(s) =>
           /\ reply[s].ended = "returned"
           /\ Len(reply[s].text.items) <= ListedMost
           /\ reply[s].text.lead = "Search Results for "
           /\ reply[s].text.arg = trim(p[3])

\* the client returned to the search handler s a list that is not empty and whose
\* entries to list, the first 5, are pairs with the members the listing reads a member
\* of (priceChange, volume)
SearchPairsToList(s) ==
  /\ Ended(s) /\ result[s].success
  /\ result[s].data.shape = "array" /\ result[s].data.items # <<>>
  /\ \A i \in 1..Len(slice(result[s].data.items, ListedMost)) :
       /\ result[s].data.items[i].t = "pair"
       /\ Has(result[s].data.items[i], "priceChange")
       /\ Has(result[s].data.items[i], "volume")

\* C21: for a message "<search|find|look for> [for] Q [on dexscreener]" the search
\* handler calls search exactly once, with Q trimmed as the query, and the call sends
\* its one request once its pacing step is over.  When the client returns a list that
\* is not empty and whose first 5 entries are pairs with the priceChange and volume
\* the listing reads, the reply lists these first entries, at most 5, under the heading
\* 'Search Results for "Q"' with that same trimmed Q; when the client returns an empty
\* list the text is 'No results found for "Q"', and when the client fails it is
\* 'Failed to search: ' followed by the client's error; these two replies carry no data.
C21_SearchQuery ==
  \A s \in DOMAIN handling : \A p \in SearchParts :
    handling[s].handler = "dexscreener_search" /\ handling[s].content = SearchForm(p) =>
      /\ call[s].kind = "search"
      /\ call[s].address = trim(p[3])
      /\ Cardinality({i \in 1..Len(sent) : sent[i].slot = s}) <= 1
      /\ pc[s] \notin {"sleeping", "paced"} =>
           Cardinality(SentTo(s, "/latest/dex/search")) = 1
      /\ SearchPairsToList(s) =>
           /\ reply[s].ended = "returned"
           /\ reply[s].action = "dexscreener_search"
           /\ reply[s].text.kind = "listing"
           /\ reply[s].text.lead = "Search Results for "
           /\ reply[s].text.arg = trim(p[3])
           /\ reply[s].text.items = slice(result[s].data.items, ListedMost)
           /\ Len(reply[s].text.items) <= ListedMost
           /\ reply[s].data = JArray(reply[s].text.items)
      /\ Ended(s) /\ result[s].success /\ result[s].data = JArray(<<>>) =>
           /\ reply[s].ended = "returned"
           /\ reply[s].action = "dexscreener_search"
           /\ reply[s].text.kind = "empty"
           /\ reply[s].text.lead = "No results found for "
           /\ reply[s].text.arg = trim(p[3])
           /\ reply[s].text.items = <<>>
           /\ reply[s].data = JUndefined
      /\ Ended(s) /\ ~result[s].success =>
           /\ reply[s].ended = "returned"
           /\ reply[s].action = "dexscreener_search"
           /\ reply[s].text.kind = "failed"
           /\ reply[s].text.lead = "Failed to search: "
           /\ reply[s].text.error = result[s].error
           /\ reply[s].text.items = <<>>
           /\ reply[s].data = JUndefined

\* a search message with "for", a query ending in a space and "on DexScreener" was
\* answered with more pairs than the handler lists
C21_Witness ==
  \E s \in DOMAIN handling : \E p \in SearchParts :
    /\ handling[s].handler = "dexscreener_search" /\ handling[s].content = SearchForm(p)
    /\ p[2] /\ p[4] # <<>> /\ trim(p[3]) # p[3]
    /\ Ended(s) /\ result[s].success
    /\ Len(result[s].data.items) > ListedMost
    /\ Len(reply[s].text.items) = ListedMost

\* C22: the trending handler calls getTrending with the 1h, 6h or 24h token of the
\* message as timeframe (24h when the message has none) and the N of "top N" as limit
\* (10 when the message has none), and the heading of its listing is "Trending Tokens"
\* with that same timeframe.
C22_TrendingCall ==
  \A s \in DOMAIN handling : \A p \in TrendingParts :
    handling[s].handler = "dexscreener_trending" /\ handling[s].content = TrendingForm(p) =>
      /\ call[s].kind = "getTrending"
      /\ "timeframe" \notin call[s].omitted /\ "limit" \notin call[s].omitted
      /\ call[s].timeframe = IF p[2] = <<>> THEN <<"2", "4", "h">> ELSE p[2]
      /\ call[s].limit = IF p[1] = <<>> THEN 10 ELSE parseInt(p[1])
      /\ reply[s].text.kind = "listing" =>
           /\ reply[s].text.lead = "Trending Tokens "
           /\ reply[s].text.arg = call[s].timeframe

\* the handler was asked for the top 12 of the last 6h and has listed a pair
C22_Witness ==
  \E s \in DOMAIN handling :
    /\ handling[s].handler = "dexscreener_trending"
    /\ handling[s].content = TrendingForm(<<<<"1", "2">>, <<"6", "h">>>>)
    /\ call[s].limit = 12
    /\ reply[s].text.kind = "listing"
    /\ reply[s].text.arg = <<"6", "h">>
    /\ reply[s].text.items # <<>>

\* the sort key that the keywords of a message stand for, by their priority
KeyOf(words) ==
  IF includes(words, <<"l", "i", "q", "u", "i", "d">>) THEN "liquidity"
  ELSE IF includes(words, <<"g", "a", "i", "n">>) \/ includes(words, <<"c", "h", "a", "n", "g", "e">>) THEN "priceChange"
  ELSE IF includes(words, <<"a", "c", "t", "i", "v", "e">>) \/ includes(words, <<"t", "r", "a", "d", "e", "s">>) THEN "txns"
  ELSE "volume"

\* C23: the chain-pairs handler calls getPairsByChain with the known chain name that
\* stands in the message, limit 10 and the sort key of the keywords present ("liquid"
\* before "gain" or "change" before "active" or "trades", volume when there is none),
\* and its listing shows the first of the returned pairs, at most 5 of them.
C23_ChainPairsCall ==
  \A s \in DOMAIN handling : \A p \in ChainParts :
    handling[s].handler = "dexscreener_chain_pairs" /\ handling[s].content = ChainForm(p) =>
      /\ call[s].kind = "getPairsByChain"
      /\ call[s].omitted = {}
      /\ call[s].chain = toLowerCase(p[2])
      /\ includes(chains, call[s].chain)
      /\ call[s].limit = 10
      /\ call[s].sortBy = KeyOf(p[1])
      /\ reply[s].text.kind = "listing" =>
           /\ reply[s].text.items = slice(result[s].data.items, 5)
           /\ Len(reply[s].text.items) <= 5
           /\ reply[s].data = result[s].data

\* a message naming three keywords and a chain was answered with 6 pairs of the
\* chain, of which the handler lists 5
C23_Witness ==
  \E s \in DOMAIN handling : \E p \in ChainParts :
    /\ handling[s].handler = "dexscreener_chain_pairs" /\ handling[s].content = ChainForm(p)
    /\ Len(p[1]) = 3
    /\ call[s].sortBy = "liquidity"
    /\ reply[s].text.kind = "listing"
    /\ Len(result[s].data.items) = 6
    /\ Len(reply[s].text.items) = 5

\* C24: the validate of every action gives a message the answer it gives the same
\* message in lower case: whether a handler is run does not depend on the case of the
\* letters of the message.
C24_ValidateFoldsCase ==
  \A s \in DOMAIN handling :
    handling[s].at # "none" =>
      (handling[s].at # "rejected"
         <=> validate(handling[s].handler, toLowerCase(handling[s].content)))

\* the USD liquidity of a pair, a missing one counted as 0
Usd(x) == IF Has(x, "liquidity") THEN x.liquidityUsd ELSE 0

\* the token-info handler has a successful, non-empty list of pairs to show
PairsToShow(s) ==
  /\ handling[s].handler = "dexscreener_token_info"
  /\ Ended(s) /\ result[s].success
  /\ result[s].data.items # <<>>
  /\ \A i \in 1..Len(result[s].data.items) : IsWholePair(result[s].data.items[i])

\* C25: on success with a non-empty list of pairs the token-info handler shows as the
\* canonical pair one whose USD liquidity (0 when missing) is at least that of every
\* returned pair, the earliest of these, and lists the first of the pairs, at most 3,
\* under it.
C25_MostLiquidPair ==
  \A s \in DOMAIN handling :
    PairsToShow(s) =>
      LET pairs == result[s].data.items
          Most == {i \in 1..Len(pairs) : \A j \in 1..Len(pairs) : Usd(pairs[i]) >= Usd(pairs[j])}
      IN /\ reply[s].ended = "returned"
         /\ reply[s].text.kind = "listing"
         /\ reply[s].text.main = pairs[Least(Most)]
         /\ reply[s].text.items = slice(pairs, 3)
         /\ Len(reply[s].text.items) <= 3

\* the handler was given more than 3 pairs, the first two of which are different
\* pairs of the same liquidity, the greatest of all
C25_Witness ==
  \E s \in DOMAIN handling :
    /\ PairsToShow(s)
    /\ Len(result[s].data.items) > 3
    /\ result[s].data.items[1] # result[s].data.items[2]
    /\ Usd(result[s].data.items[1]) = Usd(result[s].data.items[2])
    /\ reply[s].text.main = result[s].data.items[1]
    /\ Len(reply[s].text.items) = 3

\* the Number a formatter works on
NumericValue(v) == IF IsString(v) THEN parseFloat(v.chars) ELSE Double(v)

\* how many digits stand behind the point of a text, to its end
FractionDigits(text) ==
  LET points == {i \in 1..Len(text) : text[i] = "."}
  IN IF points = {} THEN 0
     ELSE Run(text, Least(points) + 1, "digit")

\* the text is digits, a point and digits (behind a minus sign or not)
IsFixedNotation(text) ==
  LET t == IF text # <<>> /\ text[1] = "-" THEN Tail(text) ELSE text
      n == Run(t, 1, "digit")
  IN n >= 1 /\ n < Len(t) /\ t[n + 1] = "." /\ Run(t, n + 2, "digit") = Len(t) - n - 1

\* C26: formatPrice writes the numeric value p of its argument (a number or a numeric
\* string) with exactly 2 fractional digits when p >= 1, exactly 4 when
\* 0.01 <= p < 1 and exactly 8 when p < 0.01; 1 and 0.01 belong to the higher tier.
C26_TieredPrecision ==
  formatted.formatter = "formatPrice" =>
    LET p == NumericValue(formatted.input)
    IN p.is = "finite" =>
         /\ IsFixedNotation(formatted.output)
         /\ FractionDigits(formatted.output) =
              IF AtLeast(p, One) THEN 2
              ELSE IF AtLeast(p, Hundredth) THEN 4
              ELSE 8

\* C27: when every operation is awaited before the next is called and each sends one
\* request, every request goes out at least rateLimitDelay after the last-request
\* time recorded for the request before it.
C27_SequentialSpacing ==
  \A i \in 2..Len(sent) : sent[i].at >= sent[i - 1].stamp + rateLimitDelay

\* operation s passes its pacing step: rateLimit() records the time and returns
PacingStep(s) == pc[s] \in {"idle", "sleeping"} /\ pc'[s] = "paced"

\* C28: lastRequestTime is written by the pacing step alone, with the time of that
\* step, and never decreases, however the operations in flight interleave; stop, a
\* formatter, a getMultipleTokens call rejected for its length and a request that
\* fails leave it as it is.
C28_StampWrittenByPacing ==
  [][/\ lastRequestTime' >= lastRequestTime
     /\ lastRequestTime' # lastRequestTime =>
          lastRequestTime' = now /\ \E s \in Slots : PacingStep(s)
     /\ console' # console => lastRequestTime' = lastRequestTime
     /\ formatted' # formatted => lastRequestTime' = lastRequestTime
     /\ \A s \in Slots :
          pc[s] = "idle" /\ pc'[s] = "done" => lastRequestTime' = lastRequestTime
     /\ \A s \in Slots :
          pc[s] \in {"request", "fanout"} /\ pc'[s] = "done" /\ ~result'[s].success =>
            lastRequestTime' = lastRequestTime]_vars

\* the time has been recorded twice, the second later than the first, and since then
\* stop and a formatter have run, a getMultipleTokens call has been rejected and a
\* request has failed
C28_Witness ==
  /\ Len(sent) >= 2
  /\ lastRequestTime > StartTime
  /\ \E i \in 1..Len(console) : console[i] = "DexScreener service stopped"
  /\ formatted # NoFormat
  /\ \E s \in Slots : Done(s) /\ TooMany(call[s])
  /\ \E s \in Slots : Done(s) /\ ~TooMany(call[s]) /\ ~result[s].success

RECURSIVE RequestsOf(_, _)
\* the requests of operation s among rs, in order: where each went and for which token
RequestsOf(s, rs) ==
  IF rs = <<>> THEN <<>>
  ELSE IF Head(rs).slot = s THEN <<<<Head(rs).path, Head(rs).token>>>> \o RequestsOf(s, Tail(rs))
  ELSE RequestsOf(s, Tail(rs))

\* C29: two calls of getTrending that differ in their timeframe alone (1h, 6h, 24h or
\* none) and get the same upstream responses send the same requests and return the
\* same result.
C29_TimeframeIgnored ==
  Done(1) /\ Done(2) =>
    /\ RequestsOf(1, sent) = RequestsOf(2, sent)
    /\ result[1] = result[2]

\* a call for 1h and a call without timeframe have both returned the pairs of two
\* promoted tokens
C29_Witness ==
  /\ Done(1) /\ Done(2)
  /\ {call[1].timeframe, call[2].timeframe} = {<<"1", "h">>, <<>>}
  /\ "timeframe" \in call[1].omitted \cup call[2].omitted
  /\ Len(RequestsOf(1, sent)) = 3
  /\ result[1].success /\ Len(result[1].data.items) = 2

\* C30: a pacing step sets its timer to at most rateLimitDelay and, the timer fired,
\* returns; so, however the operations in flight interleave and given that each
\* request settles, from some point on no operation is left in its pacing step or
\* anywhere else short of its return: each has returned or was never called.
C30_PacingCompletes ==
  /\ [][\A s \in Slots :
          pc[s] = "idle" /\ pc'[s] = "sleeping" =>
            wake'[s] > now /\ wake'[s] <= now + rateLimitDelay]_vars
  /\ <>[](\A s \in Slots : pc[s] \in {"idle", "done"})

\* every operation has returned, two of them after sleeping in their pacing step at
\* the same time, the later one beyond EndTime
C30_Witness ==
  /\ \A s \in Slots : Done(s)
  /\ \E r, s \in Slots : r # s /\ wake[r] > 0 /\ wake[s] > 0
  /\ \E i \in 1..Len(sent) : sent[i].paced /\ sent[i].at > EndTime

====
